---- MODULE Spec2Model ----
(***************************************************************************)
(* Value-bet detection pipeline of BET-APP-CLAUDE.                         *)
(*                                                                         *)
(*   src/model.py        the Poisson grid, calc_league_averages,           *)
(*                       calc_attack_defense_strength, predict_match,      *)
(*                       find_value_bets                                   *)
(*   src/scheduler.py    refresh_team_stats, run_value_bet_engine,         *)
(*                       handle_run, handle_refresh, the polling loop      *)
(*   src/telegram_bot.py send_daily_summary                                *)
(*                                                                         *)
(* Several specifications share the module:                                *)
(*   Spec         the worker: threads running run_value_bet_engine and     *)
(*                refresh_team_stats over the shared worker_state and the  *)
(*                database, one step per stage of the pipeline and per     *)
(*                committed write of the database;                         *)
(*   SpecScore    find_value_bets applied to bounded inputs;               *)
(*   SpecMatch    the odds index and the exact / fuzzy reconciliation of   *)
(*                run_value_bet_engine applied to bounded inputs;          *)
(*   SpecPredict  predict_match applied to bounded inputs;                 *)
(*   SpecStrength calc_league_averages and calc_attack_defense_strength    *)
(*                applied to bounded team statistics;                      *)
(*   SpecSummary  a run's batch of value bets and send_daily_summary;      *)
(*   SpecPoll, SpecCommands, SpecOverlap  the Telegram polling loop, its   *)
(*                command handlers and overlapping invocations.            *)
(*                                                                         *)
(* Numbers of the inputs are decimals written as integers: a probability p *)
(* is the integer p * 10^5, a bookmaker price o the integer o * 10^2, a    *)
(* threshold v the integer v * 10^7, a strength or a league average of     *)
(* SpecPredict a number of hundredths.  The functions of model.py compute  *)
(* on them as the source does, in IEEE 754 binary64: the decimal becomes   *)
(* the nearest double; sum, product, difference and quotient are rounded   *)
(* to nearest-even; pow and exp give the double the C library computes,    *)
(* which is within one unit in the last place of the exact value and not   *)
(* always the nearest; round(x, n) rounds the exact value of the double.   *)
(* Rounded fields are in units of 10^-4 (probabilities, value) and 10^-3   *)
(* (lambdas, bk_odds, model_odds); league averages and strengths are       *)
(* doubles.                                                                *)
(* Team names are sequences of one-character strings of Latin-1.           *)
(***************************************************************************)
EXTENDS Integers, Sequences, FiniteSets, TLC

VARIABLES
    worker_state,   \* scheduler.py worker_state
    pc,             \* per thread: position in run_value_bet_engine / refresh_team_stats
    local,          \* per thread: the locals of the function it runs
    db_team_stats,  \* database table team_stats: league -> set of team ids stored
    db_bets,        \* database table bets: the rows inserted, in order
    now,            \* datetime.now(): a logical clock
    invocations,    \* number of invocations started so far
    fv_in, fv_out,  \* SpecScore: arguments and result of find_value_bets
    rc_in, rc_out,  \* SpecMatch: odds events + fixture, and the reconciliation result
    pr_in, pr_out,  \* SpecPredict: arguments and result of predict_match
    cs_in, cs_out,  \* SpecStrength: team stats, and the averages and strengths
    ds_in, ds_out,  \* SpecSummary: the run's batch, and the messages sent for it
    TELEGRAM_CHAT,  \* scheduler.py TELEGRAM_CHAT: the authorized chat id, "" when unset
    tg,             \* the bot's update queue at Telegram: updates sent, updates forgotten
    poll            \* telegram_polling: its position and its locals

vars == <<worker_state, pc, local, db_team_stats, db_bets, now, invocations,
          fv_in, fv_out, rc_in, rc_out, pr_in, pr_out, cs_in, cs_out,
          ds_in, ds_out, TELEGRAM_CHAT, tg, poll>>

engineVars == <<worker_state, pc, local, db_team_stats, db_bets, now, invocations>>
scoreVars  == <<fv_in, fv_out>>
matchVars  == <<rc_in, rc_out>>
predVars   == <<pr_in, pr_out>>
strengthVars == <<cs_in, cs_out>>
summaryVars  == <<ds_in, ds_out>>
pollVars   == <<TELEGRAM_CHAT, tg, poll>>

(***************************************************************************)
(* Generic helpers                                                         *)
(***************************************************************************)
Range(s) == {s[i] : i \in DOMAIN s}

\* The sequences over S of length 0..n.
SeqUpTo(S, n) == UNION {[1..k -> S] : k \in 0..n}

\* Python's None where a number is expected (a price, a probability, a
\* timestamp): no number of the model is negative.
None == -1

\* Python min and max of two numbers.
Min2(a, b) == IF b < a THEN b ELSE a
Max2(a, b) == IF b > a THEN b ELSE a

(***************************************************************************)
(* Strings: str.lower() and the substring test `a in b`                    *)
(***************************************************************************)
\* Characters are those of Latin-1 (code points 0..255).  The capitals among
\* them, A-Z and the accented capitals U+00C0..U+00DE, and what str.lower()
\* makes of each, in code-point order; every other character of Latin-1 is
\* left as it is.
UpperCase == <<"A","B","C","D","E","F","G","H","I","J","K","L","M",
               "N","O","P","Q","R","S","T","U","V","W","X","Y","Z",
               "À","Á","Â","Ã","Ä","Å","Æ","Ç","È","É","Ê","Ë","Ì",
               "Í","Î","Ï","Ð","Ñ","Ò","Ó","Ô","Õ","Ö","Ø","Ù","Ú",
               "Û","Ü","Ý","Þ">>
LowerCase == <<"a","b","c","d","e","f","g","h","i","j","k","l","m",
               "n","o","p","q","r","s","t","u","v","w","x","y","z",
               "à","á","â","ã","ä","å","æ","ç","è","é","ê","ë","ì",
               "í","î","ï","ð","ñ","ò","ó","ô","õ","ö","ø","ù","ú",
               "û","ü","ý","þ">>

LowerOf == [c \in Range(UpperCase) |->
               LowerCase[CHOOSE i \in DOMAIN UpperCase : UpperCase[i] = c]]

LowerChar(c) == IF c \in DOMAIN LowerOf THEN LowerOf[c] ELSE c

Lower(s) == [i \in DOMAIN s |-> LowerChar(s[i])]

\* A plausible slip: characters of a found in b in order, gaps allowed.
RECURSIVE IsSubsequence(_, _)
IsSubsequence(a, b) ==
    IF a = <<>> THEN TRUE
    ELSE IF b = <<>> THEN FALSE
    ELSE IF Head(a) = Head(b) THEN IsSubsequence(Tail(a), Tail(b))
    ELSE IsSubsequence(a, Tail(b))

\* Python `a in b` on str: a occurs in b as a contiguous block.
IsSubstring(a, b) ==
    \E off \in 0..(Len(b) - Len(a)) : SubSeq(b, off + 1, off + Len(a)) = a


(***************************************************************************)
(* Python float: IEEE 754 binary64 arithmetic, round to nearest, ties to    *)
(* even.  A natural number of any size is a sequence of limbs in base 2^15, *)
(* least significant first, without leading zero limbs (<<>> is 0).  A      *)
(* float is [neg, m, e]: the value (-1)^neg * m * 2^e, with m = 0 or        *)
(* 2^52 <= m < 2^53.  The values of the program are far from the subnormal  *)
(* range and from overflow.                                                *)
(***************************************************************************)
LimbBits == 15
Limb     == 32768          \* 2^LimbBits
Mantissa == 53             \* bits of a binary64 significand

RECURSIVE NatOf(_)
NatOf(n) == IF n = 0 THEN <<>> ELSE <<n % Limb>> \o NatOf(n \div Limb)

\* The small natural number a sequence of limbs stands for.
RECURSIVE IntOf(_)
IntOf(a) == IF a = <<>> THEN 0 ELSE Head(a) + Limb * IntOf(Tail(a))

RECURSIVE Strip(_)
Strip(a) ==
    IF a = <<>> THEN <<>>
    ELSE IF a[Len(a)] = 0 THEN Strip(SubSeq(a, 1, Len(a) - 1))
    ELSE a

\* a * k + c, for 0 <= k <= Limb.
RECURSIVE NatMulSmall(_, _, _)
NatMulSmall(a, k, c) ==
    IF a = <<>> THEN NatOf(c)
    ELSE <<(Head(a) * k + c) % Limb>>
           \o NatMulSmall(Tail(a), k, (Head(a) * k + c) \div Limb)

\* a + b + c, for c in 0..1.
RECURSIVE NatAdd(_, _, _)
NatAdd(a, b, c) ==
    IF a = <<>> THEN (IF c = 0 THEN b ELSE NatAdd(<<c>>, b, 0))
    ELSE IF b = <<>> THEN (IF c = 0 THEN a ELSE NatAdd(a, <<c>>, 0))
    ELSE <<(Head(a) + Head(b) + c) % Limb>>
           \o NatAdd(Tail(a), Tail(b), (Head(a) + Head(b) + c) \div Limb)

\* a - b - c for a >= b + c, before the leading zeros are stripped.
RECURSIVE NatSubLimbs(_, _, _)
NatSubLimbs(a, b, c) ==
    IF a = <<>> THEN <<>>
    ELSE IF b = <<>>
    THEN <<(Head(a) - c + Limb) % Limb>>
           \o NatSubLimbs(Tail(a), <<>>, IF Head(a) - c < 0 THEN 1 ELSE 0)
    ELSE <<(Head(a) - Head(b) - c + Limb) % Limb>>
           \o NatSubLimbs(Tail(a), Tail(b), IF Head(a) - Head(b) - c < 0 THEN 1 ELSE 0)

NatSub(a, b) == Strip(NatSubLimbs(a, b, 0))

\* -1, 0, 1 as a < b, a = b, a > b.
RECURSIVE NatCmp(_, _)
NatCmp(a, b) ==
    IF Len(a) # Len(b) THEN (IF Len(a) < Len(b) THEN -1 ELSE 1)
    ELSE IF a = <<>> THEN 0
    ELSE IF a[Len(a)] # b[Len(b)] THEN (IF a[Len(a)] < b[Len(b)] THEN -1 ELSE 1)
    ELSE NatCmp(Strip(SubSeq(a, 1, Len(a) - 1)), Strip(SubSeq(b, 1, Len(b) - 1)))

RECURSIVE NatMul(_, _)
NatMul(a, b) ==
    IF a = <<>> \/ b = <<>> THEN <<>>
    ELSE NatAdd(NatMulSmall(a, Head(b), 0),
                (IF Tail(b) = <<>> THEN <<>> ELSE <<0>> \o NatMul(a, Tail(b))), 0)

RECURSIVE Pow2(_)
Pow2(s) == IF s = 0 THEN 1 ELSE 2 * Pow2(s - 1)

RECURSIVE Zeros(_)
Zeros(n) == IF n = 0 THEN <<>> ELSE <<0>> \o Zeros(n - 1)

\* a * 2^s.
NatShl(a, s) ==
    IF a = <<>> THEN <<>>
    ELSE Zeros(s \div LimbBits) \o NatMulSmall(a, Pow2(s % LimbBits), 0)

\* a \div d and a % d for 0 < d <= Limb, from the most significant limb down:
\* hi is the quotient and remainder of the limbs above the first.
RECURSIVE NatDivSmall(_, _)
NatDivStep(a, d, hi) ==
    [q |-> Strip(<<(hi.r * Limb + Head(a)) \div d>> \o hi.q),
     r |-> (hi.r * Limb + Head(a)) % d]

NatDivSmall(a, d) ==
    IF a = <<>> THEN [q |-> <<>>, r |-> 0]
    ELSE NatDivStep(a, d, NatDivSmall(Tail(a), d))

\* The result of a \div 2^s: the quotient q, and whether the remainder rest is
\* below, at or above the half 2^(s-1) (-1, 0, 1; -2 when the remainder is 0).
NatShrResult(q, rest, s) ==
    [q   |-> q,
     cmp |-> IF rest = <<>> \/ s = 0 THEN -2 ELSE NatCmp(rest, NatShl(<<1>>, s - 1))]

\* low: the limbs shifted out whole; d: the other limbs divided by the rest
\* of the power of two.
NatShrParts(low, d, s) ==
    NatShrResult(d.q, NatAdd(NatShl(NatOf(d.r), LimbBits * (s \div LimbBits)), low, 0), s)

NatShr(a, s) ==
    NatShrParts(Strip(SubSeq(a, 1, Min2(s \div LimbBits, Len(a)))),
                NatDivSmall(SubSeq(a, Min2(s \div LimbBits, Len(a)) + 1, Len(a)),
                            Pow2(s % LimbBits)),
                s)

RECURSIVE BitsOf(_)
BitsOf(n) == IF n = 0 THEN 0 ELSE 1 + BitsOf(n \div 2)

\* The number of binary digits of a.
NatBits(a) == IF a = <<>> THEN 0 ELSE LimbBits * (Len(a) - 1) + BitsOf(a[Len(a)])

NatIsOdd(a) == a # <<>> /\ a[1] % 2 = 1

\* Whether a quotient whose remainder compares as cmp with the half goes up:
\* above the half, or at the half when something more was dropped (sticky) or
\* the quotient is odd.
RoundsUp(d, sticky) == d.cmp = 1 \/ (d.cmp = 0 /\ (sticky \/ NatIsOdd(d.q)))

Float0 == [neg |-> FALSE, m |-> <<>>, e |-> 0]

\* A carry out of the significand: 2^53 is 2^52 with the next exponent.
FloatCarry(neg, q, e) ==
    IF NatBits(q) > Mantissa
    THEN [neg |-> neg, m |-> NatShr(q, 1).q, e |-> e + 1]
    ELSE [neg |-> neg, m |-> q, e |-> e]

FloatRoundShifted(neg, d, e, sticky) ==
    FloatCarry(neg, IF RoundsUp(d, sticky) THEN NatAdd(d.q, <<1>>, 0) ELSE d.q, e)

FloatRoundBits(neg, n, e, sticky, bits) ==
    IF bits <= Mantissa
    THEN [neg |-> neg, m |-> NatShl(n, Mantissa - bits), e |-> e - (Mantissa - bits)]
    ELSE FloatRoundShifted(neg, NatShr(n, bits - Mantissa), e + (bits - Mantissa), sticky)

\* The binary64 nearest to (-1)^neg * (n + f) * 2^e, where f is a fraction in
\* [0, 1) that is 0 when sticky is FALSE and is neither 0 nor 1/2 when it is
\* TRUE (n has more than Mantissa + 1 bits whenever sticky is TRUE).
FloatRound(neg, n, e, sticky) ==
    IF n = <<>> THEN Float0 ELSE FloatRoundBits(neg, n, e, sticky, NatBits(n))

\* n \div 10^k and whether a remainder was dropped.
RECURSIVE NatDivPow10(_, _, _)
NatDivTen(d, k, sticky) == NatDivPow10(d.q, k - 1, sticky \/ d.r # 0)

NatDivPow10(n, k, sticky) ==
    IF k = 0 THEN [q |-> n, sticky |-> sticky]
    ELSE NatDivTen(NatDivSmall(n, 10), k, sticky)

RECURSIVE NatMulPow10(_, _)
NatMulPow10(n, k) == IF k = 0 THEN n ELSE NatMulPow10(NatMulSmall(n, 10, 0), k - 1)

\* The bits kept when a decimal is converted: 2^-GuardBits is far below the
\* last place of the float.
GuardBits == 90

FloatOfQuotient(d) == FloatRound(FALSE, d.q, -GuardBits, d.sticky)

\* float("n e-k"): the binary64 nearest to the decimal n / 10^k (n >= 0), as
\* the conversion of a literal, of a JSON number and of float(str) gives it.
FloatOf(n, k) == FloatOfQuotient(NatDivPow10(NatShl(NatOf(n), GuardBits), k, FALSE))

\* x * y.
FloatMul(x, y) == FloatRound(x.neg # y.neg, NatMul(x.m, y.m), x.e + y.e, FALSE)

\* Restoring division: the next `bits` binary digits of rem / d after q, for
\* rem < d; r2 is 2 * rem.
RECURSIVE NatDivBits(_, _, _, _)
NatDivBit(r2, d, q, bits) ==
    IF NatCmp(r2, d) >= 0
    THEN NatDivBits(NatSub(r2, d), d, NatAdd(NatShl(q, 1), <<1>>, 0), bits - 1)
    ELSE NatDivBits(r2, d, NatShl(q, 1), bits - 1)

NatDivBits(rem, d, q, bits) ==
    IF bits = 0 \/ Len(rem) + Len(q) < 0 THEN [q |-> q, sticky |-> rem # <<>>]
    ELSE NatDivBit(NatShl(rem, 1), d, q, bits)

\* The binary digits computed after the point of a quotient of significands.
QuotientBits == 56

FloatDivQuotient(neg, d, e) == FloatRound(neg, d.q, e, d.sticky)

\* The number of zero bits at the end of a, for a # 0.
RECURSIVE TrailingZeros(_)
TrailingZeros(a) ==
    IF Head(a) = 0 THEN LimbBits + TrailingZeros(Tail(a))
    ELSE IF Head(a) % 2 = 0 THEN 1 + TrailingZeros(<<Head(a) \div 2>>)
    ELSE 0

\* d.q and whether a remainder was left.
SmallQuotient(d) == [q |-> d.q, sticky |-> d.r # 0]

\* x / y for a y whose significand is odd * 2^zeros with odd below Limb: the
\* quotient of the significand of x, QuotientBits digits after the point,
\* by odd.
FloatDivSmall(x, y, odd, zeros) ==
    FloatDivQuotient(x.neg # y.neg,
                     SmallQuotient(NatDivSmall(NatShl(x.m, QuotientBits), odd[1])),
                     x.e - y.e - zeros - QuotientBits)

FloatDivOdd(x, y, zeros) ==
    IF NatBits(y.m) - zeros <= LimbBits
    THEN FloatDivSmall(x, y, NatShr(y.m, zeros).q, zeros)
    ELSE FloatDivQuotient(x.neg # y.neg,
                          IF NatCmp(x.m, y.m) >= 0
                          THEN NatDivBits(NatSub(x.m, y.m), y.m, <<1>>, QuotientBits)
                          ELSE NatDivBits(x.m, y.m, <<>>, QuotientBits),
                          x.e - y.e - QuotientBits)

\* x / y, for y # 0: digit by digit, or limb by limb when the significand of
\* y is a small number times a power of two.
FloatDiv(x, y) == IF x.m = <<>> THEN Float0 ELSE FloatDivOdd(x, y, TrailingZeros(y.m))

\* The significands of x and y as multiples of 2^e, e the lesser exponent.
Aligned(x, y) == NatShl(x.m, x.e - Min2(x.e, y.e))

\* -1, 0, 1 as |x| < |y|, |x| = |y|, |x| > |y|.
FloatCmpAbs(x, y) == NatCmp(Aligned(x, y), Aligned(y, x))

\* (-1)^xneg * a * 2^e - (-1)^yneg * b * 2^e, for a and b not 0.
FloatSubAligned(xneg, a, yneg, b, e, cmp) ==
    FloatRound(IF xneg # yneg \/ cmp >= 0 THEN xneg ELSE ~xneg,
               IF xneg # yneg THEN NatAdd(a, b, 0)
               ELSE IF cmp >= 0 THEN NatSub(a, b) ELSE NatSub(b, a),
               e, FALSE)

\* x - y.
FloatSub(x, y) ==
    IF x.m = <<>> THEN [y EXCEPT !.neg = ~y.neg /\ y.m # <<>>]
    ELSE IF y.m = <<>> THEN x
    ELSE FloatSubAligned(x.neg, Aligned(x, y), y.neg, Aligned(y, x),
                         Min2(x.e, y.e), FloatCmpAbs(x, y))

\* x > y.
FloatGt(x, y) ==
    IF x.neg # y.neg THEN y.neg /\ (x.m # <<>> \/ y.m # <<>>)
    ELSE FloatCmpAbs(x, y) = (IF x.neg THEN -1 ELSE 1)

One == FloatOf(1, 0)

\* -x.
FloatNeg(x) == [x EXCEPT !.neg = ~x.neg /\ x.m # <<>>]

\* x + y.
FloatAdd(x, y) == FloatSub(x, FloatNeg(y))

\* min(x, y) and max(x, y) of Python: the first argument unless the second is
\* strictly less, strictly greater.
FloatMin(x, y) == IF FloatGt(x, y) THEN y ELSE x
FloatMax(x, y) == IF FloatGt(y, x) THEN y ELSE x

(***************************************************************************)
(* pow() and exp() of the C library.  `lam ** k` and math.exp(-lam) of     *)
(* poisson_prob (model.py line 24) call them, and their result is not      *)
(* always the binary64 nearest to the exact value: it is what the          *)
(* library's algorithm computes.  The library is glibc 2.36 on x86-64,     *)
(* which runs its variant compiled with fused multiply-add on a processor  *)
(* that has FMA and AVX2 (sysdeps/ieee754/dbl-64/e_exp.c, e_pow.c and      *)
(* their tables e_exp_data.c, e_pow_log_data.c).  The operators below      *)
(* follow that variant operation by operation: every sum, product and      *)
(* fused multiply-add is rounded where the library rounds it.  A 64-bit    *)
(* word of the library's tables is five limbs, least significant first.    *)
(***************************************************************************)

\* The binary64 whose bits 0..44 are the first three limbs of the word w and
\* whose bits 45..63 are top: seven bits of the fraction, eleven of the
\* exponent, the sign.
DoubleOfBits(w, top) ==
    IF (top \div 128) % 2048 = 0 THEN Float0
    ELSE [neg |-> top >= 262144,
          m   |-> <<w[1], w[2], w[3], (top % 128) + 128>>,
          e   |-> ((top \div 128) % 2048) - 1075]

\* Bits 45..63 of the word w.
TopBits(w) == w[4] + Limb * w[5]

\* asdouble(w).
asdouble(w) == DoubleOfBits(w, TopBits(w))

\* asuint64(x) >> 52 for x >= 0: the exponent field of x.
Abstop(x) == IF x.m = <<>> THEN 0 ELSE x.e + 1075

\* asuint64(x) >> 32 for x > 0: the exponent field and the twenty leading
\* bits of the fraction.
Top32(x) == Abstop(x) * 1048576 + (x.m[4] - 128) * 8192 + (x.m[3] \div 4)

\* (double) k for an int k.
FloatOfInt(k) == IF k < 0 THEN FloatNeg(FloatOf(-k, 0)) ELSE FloatOf(k, 0)

\* The int an integral x is, for |x| < 2^31.
FloatInt(x) == (IF x.neg THEN -1 ELSE 1) * IntOf(NatShr(x.m, -x.e).q)

\* (-1)^xneg * a * 2^e + (-1)^yneg * b * 2^e, for a and b not 0.
FloatSumAligned(xneg, a, yneg, b, e) ==
    FloatSubAligned(xneg, a, ~yneg, b, e, NatCmp(a, b))

\* fma(x, y, z): x * y + z with one rounding.
FloatFma(x, y, z) ==
    IF x.m = <<>> \/ y.m = <<>> THEN z
    ELSE IF z.m = <<>> THEN FloatMul(x, y)
    ELSE FloatSumAligned(x.neg # y.neg,
                         NatShl(NatMul(x.m, y.m), x.e + y.e - Min2(x.e + y.e, z.e)),
                         z.neg,
                         NatShl(z.m, z.e - Min2(x.e + y.e, z.e)),
                         Min2(x.e + y.e, z.e))

\* x * 2^k.
FloatScale(x, k) == IF x.m = <<>> THEN x ELSE [x EXCEPT !.e = x.e + k]

\* __exp_data: 128 / ln 2, the shift 0x1.8p52 that rounds to an integer,
\* -ln 2 / 128 in two parts, and the coefficients of the polynomial.
InvLn2N   == asdouble(<<766, 19031, 21789, 824, 4>>)
Shift     == asdouble(<<0, 0, 0, 6592, 4>>)
NegLn2hiN == asdouble(<<0, 32244, 14603, 31665, 11>>)
NegLn2loN == asdouble(<<15162, 31036, 24170, 26727, 11>>)
C2        == asdouble(<<32189, 32767, 32767, 32511, 3>>)
C3        == asdouble(<<21564, 10922, 21845, 32298, 3>>)
C4        == asdouble(<<11153, 7726, 21847, 32042, 3>>)
C5        == asdouble(<<20503, 20297, 17477, 31752, 3>>)

\* __exp_data.tab: for i in 0..127 the words T[2i] and T[2i + 1], the tail of
\* 2^(i/128) and its bits less i << 45.
exp_tab ==
    << <<0, 0, 0, 0, 0>>, <<0, 0, 0, 32640, 3>>,
       <<16238, 13585, 27964, 25817, 3>>, <<13109, 21494, 22774, 32639, 3>>,
       <<23645, 14769, 78, 25483, 11>>, <<97, 31983, 12904, 32639, 3>>,
       <<26321, 8462, 31208, 25730, 11>>, <<32645, 20700, 3159, 32639, 3>>,
       <<30227, 27343, 18760, 25702, 3>>, <<1396, 9771, 26307, 32638, 3>>,
       <<3834, 18419, 14848, 25694, 11>>, <<30430, 21435, 16812, 32638, 3>>,
       <<18529, 17357, 23865, 25351, 3>>, <<7112, 12523, 7444, 32638, 3>>,
       <<21401, 13927, 3985, 25733, 3>>, <<29571, 5517, 30971, 32637, 3>>,
       <<31597, 15110, 27289, 25788, 3>>, <<2319, 23027, 21857, 32637, 3>>,
       <<28668, 9723, 21610, 25717, 3>>, <<18423, 22244, 12872, 32637, 3>>,
       <<7377, 24671, 30965, 25077, 3>>, <<20898, 26023, 4016, 32637, 3>>,
       <<28171, 4896, 3282, 25424, 11>>, <<21275, 24573, 28058, 32636, 3>>,
       <<15630, 21599, 22856, 25770, 11>>, <<23377, 8228, 19463, 32636, 3>>,
       <<27221, 6301, 958, 25220, 11>>, <<12748, 216, 10999, 32636, 3>>,
       <<29718, 29611, 9358, 25742, 11>>, <<11744, 23890, 2666, 32636, 3>>,
       <<21935, 21176, 20367, 25606, 3>>, <<3665, 4427, 27235, 32635, 3>>,
       <<4936, 21835, 27735, 25600, 11>>, <<20859, 30970, 19168, 32635, 3>>,
       <<12861, 11196, 32705, 25720, 11>>, <<3562, 28953, 11236, 32635, 3>>,
       <<21439, 32294, 9776, 25692, 3>>, <<19317, 22239, 3439, 32635, 3>>,
       <<27430, 27683, 26225, 25782, 11>>, <<23764, 2056, 28546, 32634, 3>>,
       <<12128, 31860, 13276, 25815, 3>>, <<14762, 25297, 21020, 32634, 3>>,
       <<14493, 5900, 7691, 25727, 11>>, <<22813, 17913, 13632, 32634, 3>>,
       <<17293, 2381, 15621, 25683, 3>>, <<3286, 4293, 6382, 32634, 3>>,
       <<1149, 25032, 26646, 25603, 3>>, <<23702, 8955, 32038, 32633, 3>>,
       <<10388, 18257, 15351, 25780, 3>>, <<25144, 23786, 25065, 32633, 3>>,
       <<18557, 25832, 30819, 25658, 3>>, <<9791, 8037, 18233, 32633, 3>>,
       <<26610, 12351, 7342, 25602, 3>>, <<31965, 19396, 11541, 32633, 3>>,
       <<2142, 32482, 25068, 25781, 11>>, <<25473, 17386, 4991, 32633, 3>>,
       <<11057, 23059, 24453, 25623, 3>>, <<24289, 27199, 31351, 32632, 3>>,
       <<16378, 13535, 1644, 25065, 11>>, <<22928, 8629, 25087, 32632, 3>>,
       <<2740, 25624, 24073, 25689, 3>>, <<779, 19912, 18966, 32632, 3>>,
       <<19343, 5021, 21066, 25456, 3>>, <<12118, 21116, 12990, 32632, 3>>,
       <<11190, 7009, 13781, 25626, 3>>, <<14101, 5219, 7160, 32632, 3>>,
       <<29772, 17752, 2055, 25650, 3>>, <<22577, 30873, 1475, 32632, 3>>,
       <<30794, 15271, 29925, 25726, 3>>, <<5887, 25800, 28706, 32631, 3>>,
       <<23300, 30492, 3584, 25653, 11>>, <<8177, 16165, 23317, 32631, 3>>,
       <<20584, 6294, 11191, 25746, 11>>, <<10699, 28277, 18076, 32631, 3>>,
       <<11662, 13986, 8160, 25800, 11>>, <<22630, 23051, 12985, 32631, 3>>,
       <<14034, 32040, 18336, 25486, 11>>, <<8183, 27083, 8044, 32631, 3>>,
       <<6933, 26524, 25702, 25800, 11>>, <<10469, 1575, 3255, 32631, 3>>,
       <<19565, 20052, 32034, 25644, 3>>, <<13346, 6180, 31385, 32630, 3>>,
       <<27018, 29776, 18817, 25752, 11>>, <<28, 2393, 26900, 32630, 3>>,
       <<2395, 4143, 7741, 25285, 11>>, <<11818, 17390, 22568, 32630, 3>>,
       <<6683, 20115, 12909, 25569, 11>>, <<10391, 12961, 18391, 32630, 3>>,
       <<11281, 16773, 4021, 25115, 3>>, <<2349, 16579, 14369, 32630, 3>>,
       <<25839, 30220, 6180, 25779, 3>>, <<87, 23098, 10503, 32630, 3>>,
       <<889, 13634, 13191, 25462, 3>>, <<15568, 27522, 6794, 32630, 3>>,
       <<4656, 32286, 32312, 25759, 3>>, <<21470, 25007, 3243, 32630, 3>>,
       <<12208, 30453, 17210, 25524, 3>>, <<10791, 10860, 32619, 32629, 3>>,
       <<24695, 22185, 30455, 25752, 3>>, <<23821, 13307, 29386, 32629, 3>>,
       <<9102, 227, 20688, 25724, 11>>, <<11431, 27962, 26313, 32629, 3>>,
       <<9033, 14631, 31539, 25662, 11>>, <<26178, 17822, 23402, 32629, 3>>,
       <<14431, 31262, 31514, 25542, 11>>, <<20354, 11578, 20653, 32629, 3>>,
       <<23798, 22774, 18715, 25648, 11>>, <<4623, 5307, 18067, 32629, 3>>,
       <<22414, 12795, 21524, 25753, 3>>, <<10202, 28010, 15644, 32629, 3>>,
       <<6917, 24341, 25308, 25564, 3>>, <<18429, 10543, 13387, 32629, 3>>,
       <<21513, 17464, 3975, 25731, 3>>, <<21545, 14992, 11295, 32629, 3>>,
       <<18154, 8243, 7701, 24998, 3>>, <<18103, 5298, 9370, 32629, 3>>,
       <<16437, 22217, 19352, 25761, 3>>, <<8520, 11098, 7612, 32629, 3>>,
       <<30367, 17202, 4393, 25703, 11>>, <<23561, 29421, 6022, 32629, 3>>,
       <<19880, 30686, 20244, 25697, 11>>, <<21893, 24692, 4602, 32629, 3>>,
       <<27054, 4695, 19938, 25634, 11>>, <<17184, 27033, 3352, 32629, 3>>,
       <<22616, 28844, 15221, 25758, 11>>, <<8741, 1194, 2274, 32629, 3>>,
       <<6500, 252, 17066, 25272, 3>>, <<10611, 10393, 1367, 32629, 3>>,
       <<8744, 32444, 20414, 25757, 11>>, <<15309, 19710, 633, 32629, 3>>,
       <<14722, 3689, 19126, 25424, 11>>, <<23231, 27159, 73, 32629, 3>>,
       <<10734, 28891, 8126, 25371, 11>>, <<6703, 30922, 32456, 32628, 3>>,
       <<2129, 10689, 28917, 25606, 11>>, <<5252, 29347, 32247, 32628, 3>>,
       <<16079, 31924, 32145, 25536, 11>>, <<24436, 20952, 32215, 32628, 3>>,
       <<32176, 278, 14635, 25655, 11>>, <<372, 4427, 32361, 32628, 3>>,
       <<26250, 15531, 25800, 25648, 11>>, <<26569, 11396, 32685, 32628, 3>>,
       <<21715, 15379, 29485, 25732, 3>>, <<23871, 8124, 421, 32629, 3>>,
       <<9501, 29339, 19314, 25561, 11>>, <<391, 26582, 1105, 32629, 3>>,
       <<16491, 10447, 13301, 25767, 3>>, <<16690, 609, 1972, 32629, 3>>,
       <<27733, 22444, 12166, 25391, 3>>, <<20066, 28062, 3020, 32629, 3>>,
       <<20290, 24423, 1812, 25669, 11>>, <<6674, 10364, 4253, 32629, 3>>,
       <<14132, 25206, 9947, 25755, 11>>, <<19987, 12953, 5670, 32629, 3>>,
       <<32542, 29747, 31248, 25602, 11>>, <<18349, 3143, 7273, 32629, 3>>,
       <<22382, 12516, 20803, 25766, 11>>, <<4845, 13961, 9062, 32629, 3>>,
       <<2560, 13853, 13725, 25733, 3>>, <<26265, 13076, 11039, 32629, 3>>,
       <<27316, 993, 23743, 25709, 3>>, <<8411, 1109, 13205, 32629, 3>>,
       <<26623, 14731, 22914, 25389, 11>>, <<17548, 11626, 15560, 32629, 3>>,
       <<24388, 13286, 23053, 25567, 3>>, <<30518, 12842, 18106, 32629, 3>>,
       <<15747, 20028, 9342, 25752, 11>>, <<32710, 5923, 20844, 32629, 3>>,
       <<7721, 5848, 9954, 25325, 11>>, <<17893, 24987, 23774, 32629, 3>>,
       <<14681, 31009, 4069, 25441, 11>>, <<21007, 6032, 26899, 32629, 3>>,
       <<31146, 17897, 3340, 25746, 11>>, <<20048, 16316, 30218, 32629, 3>>,
       <<3659, 11981, 10675, 25646, 11>>, <<1978, 24980, 965, 32630, 3>>,
       <<20007, 22307, 16368, 25485, 3>>, <<28816, 1351, 4678, 32630, 3>>,
       <<29627, 16916, 18647, 25454, 3>>, <<8995, 13254, 8588, 32630, 3>>,
       <<8803, 17604, 5136, 25662, 11>>, <<25957, 30395, 12697, 32630, 3>>,
       <<12757, 18372, 29211, 25688, 3>>, <<11571, 22676, 17007, 32630, 3>>,
       <<15125, 10105, 28487, 25741, 11>>, <<9565, 25724, 21518, 32630, 3>>,
       <<12754, 14812, 12486, 25734, 3>>, <<13144, 9825, 26232, 32630, 3>>,
       <<23219, 23782, 9745, 25635, 3>>, <<32191, 10995, 31149, 32630, 3>>,
       <<7604, 12061, 32566, 25622, 11>>, <<29562, 32679, 3502, 32631, 3>>,
       <<13191, 9622, 27102, 25696, 3>>, <<21421, 12981, 8830, 32631, 3>>,
       <<23034, 5539, 28221, 25731, 11>>, <<13926, 21275, 14364, 32631, 3>>,
       <<11962, 11705, 3941, 25262, 11>>, <<5627, 28830, 20106, 32631, 3>>,
       <<30272, 31565, 4152, 25733, 11>>, <<22842, 7114, 26058, 32631, 3>>,
       <<4916, 29019, 23504, 25414, 11>>, <<24135, 26102, 32219, 32631, 3>>,
       <<2613, 22193, 15241, 25743, 11>>, <<1610, 24898, 5824, 32632, 3>>,
       <<24013, 5311, 32604, 25511, 3>>, <<16850, 8343, 12410, 32632, 3>>,
       <<6316, 29989, 30703, 25741, 11>>, <<7689, 14254, 19209, 32632, 3>>,
       <<3251, 24926, 15032, 25499, 3>>, <<21148, 15114, 26223, 32632, 3>>,
       <<32148, 14655, 3273, 25719, 3>>, <<20602, 16383, 685, 32633, 3>>,
       <<22956, 8722, 575, 25639, 3>>, <<20811, 23727, 8132, 32633, 3>>,
       <<6759, 28828, 14012, 25374, 3>>, <<26549, 10253, 15798, 32633, 3>>,
       <<6504, 22820, 11441, 25403, 3>>, <<4201, 14815, 23683, 32633, 3>>,
       <<13778, 1945, 10338, 25604, 11>>, <<17402, 10939, 31789, 32633, 3>>,
       <<31343, 32767, 13684, 25725, 11>>, <<2428, 5135, 7349, 32634, 3>>,
       <<10569, 28907, 14008, 25728, 11>>, <<2546, 4123, 15900, 32634, 3>>,
       <<1959, 19578, 3606, 25509, 3>>, <<9351, 14839, 24675, 32634, 3>>,
       <<8719, 16512, 18040, 25620, 11>>, <<920, 11667, 908, 32635, 3>>,
       <<4780, 11139, 26947, 25714, 3>>, <<12933, 1974, 10136, 32635, 3>>,
       <<27467, 22530, 26982, 25633, 3>>, <<13408, 26115, 19591, 32635, 3>>,
       <<15903, 3944, 21636, 25622, 11>>, <<7007, 26359, 29276, 32635, 3>>,
       <<3529, 30350, 10980, 25673, 11>>, <<8489, 10731, 6424, 32636, 3>>,
       <<2259, 16501, 22545, 25509, 3>>, <<16374, 20246, 16571, 32636, 3>>,
       <<29297, 9018, 6065, 25630, 3>>, <<19587, 30606, 26951, 32636, 3>>,
       <<4592, 8103, 23626, 25727, 11>>, <<4314, 17737, 4798, 32637, 3>>,
       <<29821, 17478, 14947, 25709, 11>>, <<26609, 23324, 15648, 32637, 3>>,
       <<8200, 852, 3825, 25718, 3>>, <<23079, 23746, 26735, 32637, 3>>,
       <<27442, 1875, 11859, 25633, 3>>, <<14999, 28375, 5292, 32638, 3>>,
       <<1518, 25507, 4772, 25683, 3>>, <<17728, 14044, 16857, 32638, 3>>,
       <<25581, 18551, 24299, 25713, 11>>, <<15892, 23353, 28662, 32638, 3>>,
       <<19869, 6947, 9453, 25532, 3>>, <<4312, 829, 7942, 32639, 3>>,
       <<19593, 705, 5893, 25240, 3>>, <<29169, 22302, 20232, 32639, 3>>>>

\* __pow_log_data: ln 2 in two parts and the coefficients of the polynomial.
Ln2hi == asdouble(<<14336, 32244, 14603, 32561, 3>>)
Ln2lo == asdouble(<<26416, 10126, 19806, 26999, 3>>)
A0    == asdouble(<<0, 0, 0, 32512, 11>>)
A1    == asdouble(<<21856, 10922, 21845, 32554, 11>>)
A2    == asdouble(<<6, 0, 0, 32512, 3>>)
A3    == asdouble(<<21838, 12978, 26214, 32588, 3>>)
A4    == asdouble(<<9338, 10835, 21845, 32554, 11>>)
A5    == asdouble(<<17897, 13968, 9582, 32658, 11>>)
A6    == asdouble(<<16323, 5708, 174, 32640, 3>>)

\* __pow_log_data.tab: for i in 0..127 the words of invc, logc and logctail,
\* 1/c, log(c) and its tail for the centre c of the i-th interval.
pow_log_tab ==
    << <<<<0, 0, 0, 32693, 3>>, <<18432, 25971, 12811, 32433, 11>>,
         <<22144, 20590, 20624, 26581, 3>>>>,
       <<<<0, 0, 0, 32692, 3>>, <<2048, 32432, 18166, 32430, 11>>,
         <<30496, 12737, 5155, 26853, 11>>>>,
       <<<<0, 0, 0, 32691, 3>>, <<22528, 11914, 23004, 32427, 11>>,
         <<20589, 11116, 2707, 26907, 11>>>>,
       <<<<0, 0, 0, 32690, 3>>, <<30720, 3675, 27318, 32424, 11>>,
         <<26581, 15712, 5010, 26420, 11>>>>,
       <<<<0, 0, 0, 32689, 3>>, <<30720, 10990, 31102, 32421, 11>>,
         <<16096, 9810, 28070, 26656, 11>>>>,
       <<<<0, 0, 0, 32688, 3>>, <<24576, 1080, 1583, 32419, 11>>,
         <<1228, 4249, 24765, 26782, 3>>>>,
       <<<<0, 0, 0, 32687, 3>>, <<10240, 3341, 4290, 32416, 11>>,
         <<2874, 23300, 3023, 26338, 3>>>>,
       <<<<0, 0, 0, 32686, 3>>, <<18432, 10962, 6449, 32413, 11>>,
         <<5216, 3235, 18202, 26885, 3>>>>,
       <<<<0, 0, 0, 32685, 3>>, <<0, 13617, 8054, 32410, 11>>,
         <<146, 10635, 25911, 26922, 3>>>>,
       <<<<0, 0, 0, 32684, 3>>, <<8192, 30146, 9098, 32407, 11>>,
         <<11224, 13166, 27770, 26931, 3>>>>,
       <<<<0, 0, 0, 32683, 3>>, <<2048, 10173, 9576, 32404, 11>>,
         <<12351, 28063, 10322, 26798, 3>>>>,
       <<<<0, 0, 0, 32683, 3>>, <<2048, 10173, 9576, 32404, 11>>,
         <<12351, 28063, 10322, 26798, 3>>>>,
       <<<<0, 0, 0, 32682, 3>>, <<30720, 30622, 9479, 32401, 11>>,
         <<23158, 20647, 26768, 26802, 11>>>>,
       <<<<0, 0, 0, 32681, 3>>, <<6144, 723, 8803, 32398, 11>>,
         <<21508, 20942, 16113, 26877, 11>>>>,
       <<<<0, 0, 0, 32680, 3>>, <<10240, 22359, 7538, 32395, 11>>,
         <<10480, 26373, 32536, 26872, 3>>>>,
       <<<<0, 0, 0, 32679, 3>>, <<18432, 29532, 5679, 32392, 11>>,
         <<23142, 31242, 8979, 26933, 11>>>>,
       <<<<0, 0, 0, 32678, 3>>, <<4096, 17639, 3219, 32389, 11>>,
         <<782, 32232, 12217, 26723, 11>>>>,
       <<<<0, 0, 0, 32677, 3>>, <<20480, 10601, 150, 32386, 11>>,
         <<11647, 15848, 23266, 26497, 11>>>>,
       <<<<0, 0, 0, 32677, 3>>, <<20480, 10601, 150, 32386, 11>>,
         <<11647, 15848, 23266, 26497, 11>>>>,
       <<<<0, 0, 0, 32676, 3>>, <<16384, 23228, 25697, 32381, 11>>,
         <<15495, 22322, 23722, 26730, 3>>>>,
       <<<<0, 0, 0, 32675, 3>>, <<24576, 6072, 17079, 32375, 11>>,
         <<12068, 14605, 6878, 26969, 3>>>>,
       <<<<0, 0, 0, 32674, 3>>, <<28672, 23637, 7197, 32369, 11>>,
         <<32528, 10367, 15677, 26809, 11>>>>,
       <<<<0, 0, 0, 32673, 3>>, <<16384, 22175, 28805, 32362, 11>>,
         <<26651, 30612, 27206, 26893, 3>>>>,
       <<<<0, 0, 0, 32672, 3>>, <<8192, 3893, 16351, 32356, 11>>,
         <<1076, 20799, 25917, 26939, 3>>>>,
       <<<<0, 0, 0, 32672, 3>>, <<8192, 3893, 16351, 32356, 11>>,
         <<1076, 20799, 25917, 26939, 3>>>>,
       <<<<0, 0, 0, 32671, 3>>, <<4096, 26715, 2585, 32350, 11>>,
         <<14223, 25367, 15040, 26826, 3>>>>,
       <<<<0, 0, 0, 32670, 3>>, <<16384, 7425, 20261, 32343, 11>>,
         <<4198, 32667, 14732, 26066, 3>>>>,
       <<<<0, 0, 0, 32669, 3>>, <<12288, 16325, 3824, 32337, 11>>,
         <<16874, 14477, 12691, 26924, 11>>>>,
       <<<<0, 0, 0, 32669, 3>>, <<12288, 16325, 3824, 32337, 11>>,
         <<16874, 14477, 12691, 26924, 11>>>>,
       <<<<0, 0, 0, 32668, 3>>, <<20480, 14824, 18794, 32330, 11>>,
         <<21731, 2435, 18276, 26966, 11>>>>,
       <<<<0, 0, 0, 32667, 3>>, <<20480, 19009, 32385, 32323, 11>>,
         <<31241, 32695, 30461, 26973, 3>>>>,
       <<<<0, 0, 0, 32666, 3>>, <<24576, 1057, 11812, 32317, 11>>,
         <<19032, 25766, 28225, 26974, 3>>>>,
       <<<<0, 0, 0, 32666, 3>>, <<24576, 1057, 11812, 32317, 11>>,
         <<19032, 25766, 28225, 26974, 3>>>>,
       <<<<0, 0, 0, 32665, 3>>, <<20480, 20019, 22591, 32310, 11>>,
         <<25190, 18277, 4522, 26759, 11>>>>,
       <<<<0, 0, 0, 32664, 3>>, <<4096, 24911, 31937, 32303, 11>>,
         <<20537, 15904, 30990, 26868, 11>>>>,
       <<<<0, 0, 0, 32664, 3>>, <<4096, 24911, 31937, 32303, 11>>,
         <<20537, 15904, 30990, 26868, 11>>>>,
       <<<<0, 0, 0, 32663, 3>>, <<12288, 18243, 7063, 32297, 11>>,
         <<23439, 8206, 31278, 26886, 11>>>>,
       <<<<0, 0, 0, 32662, 3>>, <<0, 22935, 13485, 32290, 11>>,
         <<30780, 17002, 13061, 26808, 3>>>>,
       <<<<0, 0, 0, 32662, 3>>, <<0, 22935, 13485, 32290, 11>>,
         <<30780, 17002, 13061, 26808, 3>>>>,
       <<<<0, 0, 0, 32661, 3>>, <<4096, 16445, 18416, 32283, 11>>,
         <<21562, 6734, 25113, 26507, 3>>>>,
       <<<<0, 0, 0, 32660, 3>>, <<28672, 28735, 21835, 32276, 11>>,
         <<17416, 12003, 13504, 26916, 11>>>>,
       <<<<0, 0, 0, 32659, 3>>, <<24576, 10846, 23723, 32269, 11>>,
         <<9110, 12323, 656, 26996, 11>>>>,
       <<<<0, 0, 0, 32659, 3>>, <<24576, 10846, 23723, 32269, 11>>,
         <<9110, 12323, 656, 26996, 11>>>>,
       <<<<0, 0, 0, 32658, 3>>, <<4096, 31137, 24057, 32262, 11>>,
         <<23540, 4560, 9818, 26707, 3>>>>,
       <<<<0, 0, 0, 32658, 3>>, <<4096, 31137, 24057, 32262, 11>>,
         <<23540, 4560, 9818, 26707, 3>>>>,
       <<<<0, 0, 0, 32657, 3>>, <<24576, 25527, 12868, 32255, 11>>,
         <<13298, 14662, 21841, 26923, 11>>>>,
       <<<<0, 0, 0, 32656, 3>>, <<0, 23638, 7197, 32241, 11>>,
         <<60, 21984, 20656, 26961, 3>>>>,
       <<<<0, 0, 0, 32656, 3>>, <<0, 23638, 7197, 32241, 11>>,
         <<60, 21984, 20656, 26961, 3>>>>,
       <<<<0, 0, 0, 32655, 3>>, <<16384, 7863, 31058, 32226, 11>>,
         <<15878, 12479, 12637, 26856, 11>>>>,
       <<<<0, 0, 0, 32654, 3>>, <<24576, 29845, 18868, 32212, 11>>,
         <<10952, 20663, 25815, 26921, 3>>>>,
       <<<<0, 0, 0, 32654, 3>>, <<24576, 29845, 18868, 32212, 11>>,
         <<10952, 20663, 25815, 26921, 3>>>>,
       <<<<0, 0, 0, 32653, 3>>, <<8192, 11363, 3351, 32198, 11>>,
         <<22120, 6750, 28837, 26779, 3>>>>,
       <<<<0, 0, 0, 32653, 3>>, <<8192, 11363, 3351, 32198, 11>>,
         <<22120, 6750, 28837, 26779, 3>>>>,
       <<<<0, 0, 0, 32652, 3>>, <<24576, 5578, 17226, 32183, 11>>,
         <<29658, 4710, 23775, 26932, 11>>>>,
       <<<<0, 0, 0, 32651, 3>>, <<8192, 32268, 27676, 32168, 11>>,
         <<24151, 17292, 2413, 26872, 3>>>>,
       <<<<0, 0, 0, 32651, 3>>, <<8192, 32268, 27676, 32168, 11>>,
         <<24151, 17292, 2413, 26872, 3>>>>,
       <<<<0, 0, 0, 32650, 3>>, <<24576, 11319, 1886, 32154, 11>>,
         <<5087, 6642, 31595, 26978, 3>>>>,
       <<<<0, 0, 0, 32650, 3>>, <<24576, 11319, 1886, 32154, 11>>,
         <<5087, 6642, 31595, 26978, 3>>>>,
       <<<<0, 0, 0, 32649, 3>>, <<0, 23879, 5339, 32139, 11>>,
         <<8969, 27935, 29049, 26787, 3>>>>,
       <<<<0, 0, 0, 32648, 3>>, <<0, 35, 10435, 32120, 11>>,
         <<3729, 1645, 26234, 26986, 3>>>>,
       <<<<0, 0, 0, 32648, 3>>, <<0, 35, 10435, 32120, 11>>,
         <<3729, 1645, 26234, 26986, 3>>>>,
       <<<<0, 0, 0, 32647, 3>>, <<0, 25139, 2933, 32090, 11>>,
         <<28748, 19372, 2539, 26852, 3>>>>,
       <<<<0, 0, 0, 32647, 3>>, <<0, 25139, 2933, 32090, 11>>,
         <<28748, 19372, 2539, 26852, 3>>>>,
       <<<<0, 0, 0, 32646, 3>>, <<16384, 27749, 20835, 32059, 11>>,
         <<8686, 27109, 28952, 26983, 11>>>>,
       <<<<0, 0, 0, 32646, 3>>, <<16384, 27749, 20835, 32059, 11>>,
         <<8686, 27109, 28952, 26983, 11>>>>,
       <<<<0, 0, 0, 32645, 3>>, <<16384, 29693, 31262, 32028, 11>>,
         <<32426, 27213, 2783, 26536, 3>>>>,
       <<<<0, 0, 0, 32645, 3>>, <<16384, 29693, 31262, 32028, 11>>,
         <<32426, 27213, 2783, 26536, 3>>>>,
       <<<<0, 0, 0, 32644, 3>>, <<0, 7408, 2668, 31996, 11>>,
         <<2532, 30972, 153, 26956, 11>>>>,
       <<<<0, 0, 0, 32644, 3>>, <<0, 7408, 2668, 31996, 11>>,
         <<2532, 30972, 153, 26956, 11>>>>,
       <<<<0, 0, 0, 32643, 3>>, <<0, 4011, 25708, 31933, 11>>,
         <<9785, 10229, 13650, 26948, 11>>>>,
       <<<<0, 0, 0, 32642, 3>>, <<0, 25080, 674, 31870, 11>>,
         <<9884, 28071, 31219, 26360, 11>>>>,
       <<<<0, 0, 0, 32642, 3>>, <<0, 25080, 674, 31870, 11>>,
         <<9884, 28071, 31219, 26360, 11>>>>,
       <<<<0, 0, 0, 32641, 3>>, <<0, 22048, 169, 31743, 11>>,
         <<16612, 7092, 2300, 26831, 11>>>>,
       <<<<0, 0, 0, 32641, 3>>, <<0, 22048, 169, 31743, 11>>,
         <<16612, 7092, 2300, 26831, 11>>>>,
       <<<<0, 0, 0, 32640, 3>>, <<0, 0, 0, 0, 0>>,
         <<0, 0, 0, 0, 0>>>>,
       <<<<0, 0, 0, 32640, 3>>, <<0, 0, 0, 0, 0>>,
         <<0, 0, 0, 0, 0>>>>,
       <<<<0, 0, 0, 32638, 3>>, <<0, 27410, 16469, 31744, 3>>,
         <<11240, 13114, 7598, 26758, 11>>>>,
       <<<<0, 0, 0, 32636, 3>>, <<0, 12583, 345, 31873, 3>>,
         <<30674, 3525, 29036, 26910, 11>>>>,
       <<<<0, 0, 0, 32634, 3>>, <<0, 20882, 9364, 31938, 3>>,
         <<3124, 25780, 744, 26965, 11>>>>,
       <<<<0, 0, 0, 32632, 3>>, <<16384, 5070, 1398, 32002, 3>>,
         <<22355, 14819, 18177, 26632, 3>>>>,
       <<<<0, 0, 0, 32630, 3>>, <<0, 10332, 6843, 32035, 3>>,
         <<32040, 27515, 22989, 26976, 11>>>>,
       <<<<0, 0, 0, 32628, 3>>, <<16384, 10559, 21160, 32068, 3>>,
         <<9853, 8372, 26199, 26827, 11>>>>,
       <<<<0, 0, 0, 32626, 3>>, <<16384, 7099, 11727, 32102, 3>>,
         <<10247, 4016, 9161, 26835, 11>>>>,
       <<<<0, 0, 0, 32625, 3>>, <<16384, 13, 10439, 32119, 3>>,
         <<15227, 8082, 17657, 26736, 11>>>>,
       <<<<0, 0, 0, 32623, 3>>, <<24576, 8844, 23791, 32140, 3>>,
         <<7835, 11291, 18805, 26921, 11>>>>,
       <<<<0, 0, 0, 32621, 3>>, <<24576, 20387, 30678, 32157, 3>>,
         <<20183, 19382, 8570, 26982, 3>>>>,
       <<<<0, 0, 0, 32619, 3>>, <<8192, 6959, 9577, 32175, 3>>,
         <<7454, 30906, 9240, 26979, 11>>>>,
       <<<<0, 0, 0, 32618, 3>>, <<16384, 5589, 844, 32184, 3>>,
         <<27954, 21307, 31286, 26464, 3>>>>,
       <<<<0, 0, 0, 32616, 3>>, <<16384, 15026, 19833, 32201, 3>>,
         <<18394, 30074, 17776, 26904, 3>>>>,
       <<<<0, 0, 0, 32614, 3>>, <<24576, 7002, 11042, 32219, 3>>,
         <<26853, 22510, 16896, 26780, 11>>>>,
       <<<<0, 0, 0, 32613, 3>>, <<16384, 888, 8544, 32228, 3>>,
         <<11475, 3253, 6983, 26930, 3>>>>,
       <<<<0, 0, 0, 32611, 3>>, <<8192, 1556, 7398, 32246, 3>>,
         <<17888, 24524, 418, 26990, 11>>>>,
       <<<<0, 0, 0, 32610, 3>>, <<24576, 29623, 8772, 32255, 3>>,
         <<2813, 8002, 21337, 26921, 11>>>>,
       <<<<0, 0, 0, 32608, 3>>, <<24576, 1103, 24122, 32264, 3>>,
         <<2034, 7258, 15843, 26895, 3>>>>,
       <<<<0, 0, 0, 32607, 3>>, <<28672, 31815, 10413, 32269, 3>>,
         <<6452, 2161, 7737, 26981, 3>>>>,
       <<<<0, 0, 0, 32605, 3>>, <<0, 6413, 17796, 32278, 3>>,
         <<13473, 5891, 30131, 26652, 3>>>>,
       <<<<0, 0, 0, 32604, 3>>, <<4096, 24619, 6130, 32283, 3>>,
         <<29321, 18070, 16032, 26161, 3>>>>,
       <<<<0, 0, 0, 32602, 3>>, <<12288, 1639, 17654, 32292, 3>>,
         <<13944, 10747, 3557, 26924, 3>>>>,
       <<<<0, 0, 0, 32601, 3>>, <<12288, 18755, 8087, 32297, 3>>,
         <<32199, 19154, 20387, 26929, 3>>>>,
       <<<<0, 0, 0, 32599, 3>>, <<4096, 32024, 23866, 32306, 3>>,
         <<11896, 22648, 15916, 26830, 3>>>>,
       <<<<0, 0, 0, 32598, 3>>, <<28672, 5866, 16458, 32311, 3>>,
         <<8673, 19256, 17975, 26920, 11>>>>,
       <<<<0, 0, 0, 32597, 3>>, <<20480, 2696, 9782, 32316, 3>>,
         <<17157, 24866, 6209, 26851, 11>>>>,
       <<<<0, 0, 0, 32595, 3>>, <<0, 22130, 31423, 32325, 3>>,
         <<11473, 21970, 30034, 26681, 11>>>>,
       <<<<0, 0, 0, 32594, 3>>, <<0, 14830, 26987, 32330, 3>>,
         <<32623, 12609, 18593, 26687, 3>>>>,
       <<<<0, 0, 0, 32592, 3>>, <<24576, 30997, 20404, 32340, 3>>,
         <<8553, 8364, 18701, 26947, 11>>>>,
       <<<<0, 0, 0, 32591, 3>>, <<20480, 11959, 18273, 32345, 3>>,
         <<25002, 7513, 22069, 26721, 11>>>>,
       <<<<0, 0, 0, 32590, 3>>, <<24576, 28791, 16924, 32350, 3>>,
         <<4790, 12968, 12049, 26986, 11>>>>,
       <<<<0, 0, 0, 32589, 3>>, <<4096, 3552, 16367, 32355, 3>>,
         <<11218, 2860, 12747, 26511, 11>>>>,
       <<<<0, 0, 0, 32587, 3>>, <<4096, 25001, 17654, 32365, 3>>,
         <<12341, 28203, 31915, 26967, 11>>>>,
       <<<<0, 0, 0, 32586, 3>>, <<4096, 32718, 19515, 32370, 3>>,
         <<29744, 16515, 18589, 26128, 3>>>>,
       <<<<0, 0, 0, 32585, 3>>, <<0, 18874, 22199, 32375, 3>>,
         <<3601, 19319, 1109, 26193, 11>>>>,
       <<<<0, 0, 0, 32584, 3>>, <<12288, 22887, 25713, 32380, 3>>,
         <<24368, 5145, 12211, 26846, 3>>>>,
       <<<<0, 0, 0, 32582, 3>>, <<22528, 16538, 17633, 32387, 3>>,
         <<20113, 11738, 29548, 26564, 3>>>>,
       <<<<0, 0, 0, 32581, 3>>, <<24576, 20162, 4277, 32390, 3>>,
         <<27369, 11385, 25132, 26936, 3>>>>,
       <<<<0, 0, 0, 32580, 3>>, <<26624, 1103, 24122, 32392, 3>>,
         <<28700, 18251, 1081, 26977, 11>>>>,
       <<<<0, 0, 0, 32579, 3>>, <<30720, 5977, 11635, 32395, 3>>,
         <<5761, 28490, 27447, 26972, 3>>>>,
       <<<<0, 0, 0, 32578, 3>>, <<26624, 18100, 32357, 32397, 3>>,
         <<15799, 8847, 7093, 26981, 3>>>>,
       <<<<0, 0, 0, 32577, 3>>, <<14336, 23069, 20757, 32400, 3>>,
         <<15082, 29837, 8058, 26708, 3>>>>,
       <<<<0, 0, 0, 32575, 3>>, <<4096, 31161, 31681, 32405, 3>>,
         <<1268, 5280, 29673, 26964, 3>>>>,
       <<<<0, 0, 0, 32574, 3>>, <<24576, 17318, 21447, 32408, 3>>,
         <<15544, 9794, 2539, 26951, 11>>>>,
       <<<<0, 0, 0, 32573, 3>>, <<4096, 28028, 11677, 32411, 3>>,
         <<30664, 25058, 15158, 26763, 3>>>>,
       <<<<0, 0, 0, 32572, 3>>, <<12288, 28262, 2377, 32414, 3>>,
         <<15708, 27661, 27986, 26817, 3>>>>,
       <<<<0, 0, 0, 32571, 3>>, <<26624, 18347, 26320, 32416, 3>>,
         <<24733, 22817, 4315, 26695, 3>>>>,
       <<<<0, 0, 0, 32570, 3>>, <<18432, 1251, 17975, 32419, 3>>,
         <<22133, 4815, 7992, 27001, 11>>>>,
       <<<<0, 0, 0, 32569, 3>>, <<12288, 15406, 10114, 32422, 3>>,
         <<22692, 13845, 548, 26993, 11>>>>,
       <<<<0, 0, 0, 32568, 3>>, <<8192, 3697, 2744, 32425, 3>>,
         <<18265, 713, 31170, 26997, 3>>>>,
       <<<<0, 0, 0, 32567, 3>>, <<20480, 10129, 28637, 32427, 3>>,
         <<16623, 23738, 14263, 26877, 3>>>>,
       <<<<0, 0, 0, 32566, 3>>, <<24576, 16050, 22263, 32430, 3>>,
         <<26076, 4424, 11432, 26704, 11>>>>>>

\* The power of two specialcase() moves the scale by when 512 <= |x| < 1024,
\* and 0 below 512, where x's exponent field is at most 0x3c9 + 0x3e.
ExpBias(n, abstop) == IF abstop <= 1031 THEN 0 ELSE IF n >= 0 THEN -1009 ELSE 1022

\* scale = asdouble(T[idx + 1] + (ki << 45)) for idx = 2 * (ki % 128), where
\* the low bits of ki are the integer n: w is T[idx + 1].
ExpScaleOf(w, n, bias) ==
    DoubleOfBits(w, (TopBits(w) + n + 128 * bias + 524288) % 524288)

ExpScale(n, bias) == ExpScaleOf(exp_tab[2 * (n % 128) + 2], n, bias)

\* tail = asdouble(T[idx]).
ExpTail(n) == asdouble(exp_tab[2 * (n % 128) + 1])

\* tmp = tail + r + r2 * (C2 + r * C3) + r2 * r2 * (C4 + r * C5), as compiled:
\* three of its sums are fused with the product before them.
ExpTmp(r, r2, tail) ==
    FloatFma(FloatFma(r, C5, C4), FloatMul(r2, r2),
             FloatFma(FloatFma(r, C3, C2), r2, FloatAdd(r, tail)))

\* scale + scale * tmp, fused; in specialcase() fused and times 2^1009, or
\* not fused and times 2^-1022 (a result in the normal range).
ExpScaled(scale, tmp, bias) ==
    IF bias = 0 THEN FloatFma(tmp, scale, scale)
    ELSE IF bias < 0 THEN FloatScale(FloatFma(tmp, scale, scale), -bias)
    ELSE FloatScale(FloatAdd(scale, FloatMul(scale, tmp)), -bias)

ExpOfBias(r, n, bias) ==
    ExpScaled(ExpScale(n, bias), ExpTmp(r, FloatMul(r, r), ExpTail(n)), bias)

\* r = x + kd * NegLn2hiN + kd * NegLn2loN, both fused, then r += xtail; ki
\* is the integer kd.
ExpReduce(x, xtail, kd) ==
    ExpOfBias(FloatAdd(xtail, FloatFma(kd, NegLn2loN, FloatFma(kd, NegLn2hiN, x))),
              FloatInt(kd), ExpBias(FloatInt(kd), Abstop(x)))

\* exp_inline(x, xtail) of e_pow.c, and with xtail = 0 the exp(x) of e_exp.c:
\* exp(x + xtail) for |x| < 1024 and a result in the normal range.  Below
\* 2^-54 the result is 1.0 + x; kd = x * InvLn2N + Shift, fused, less Shift.
exp_inline(x, xtail) ==
    IF Abstop(x) < 969 THEN FloatAdd(One, x)
    ELSE ExpReduce(x, xtail, FloatSub(FloatFma(x, InvLn2N, Shift), Shift))

\* exp(x) of the library.
exp(x) == exp_inline(x, Float0)

\* log_inline(): y = hi + lo and *tail = hi - y + lo.
LogResult(hi, lo, y) == [hi |-> y, lo |-> FloatAdd(FloatSub(hi, y), lo)]

LogSum(hi, lo) == LogResult(hi, lo, FloatAdd(hi, lo))

\* A[1] + r * A[2] + ar2 * (A[3] + r * A[4] + ar2 * (A[5] + r * A[6])), each
\* sum fused with the product before it.
LogPoly(r, ar2) ==
    FloatFma(ar2, FloatFma(FloatFma(r, A6, A5), ar2, FloatFma(r, A4, A3)),
             FloatFma(r, A2, A1))

\* lo = lo1 + lo2 + lo3 + lo4 + ar3 * p, the last sum fused.
LogLo(lo1, lo2, lo3, lo4, ar3, p) ==
    FloatFma(ar3, p, FloatAdd(FloatAdd(FloatAdd(lo1, lo2), lo3), lo4))

\* lo2 = t1 - t2 + r, lo3 = fma(ar, r, -ar2), lo4 = t2 - hi + ar2 and
\* ar3 = r * ar2.
LogHi(t1, lo1, r, t2, ar, ar2, hi) ==
    LogSum(hi, LogLo(lo1,
                     FloatAdd(FloatSub(t1, t2), r),
                     FloatFma(ar, r, FloatNeg(ar2)),
                     FloatAdd(FloatSub(t2, hi), ar2),
                     FloatMul(r, ar2),
                     LogPoly(r, ar2)))

\* hi = t2 + ar2.
LogAr2(t1, lo1, r, t2, ar, ar2) == LogHi(t1, lo1, r, t2, ar, ar2, FloatAdd(t2, ar2))

\* t2 = t1 + r and ar2 = r * ar.
LogAr(t1, lo1, r, ar) == LogAr2(t1, lo1, r, FloatAdd(r, t1), ar, FloatMul(r, ar))

\* ar = A[0] * r.
LogR(t1, lo1, r) == LogAr(t1, lo1, r, FloatMul(r, A0))

\* t1 = kd * Ln2hi + logc, lo1 = kd * Ln2lo + logctail and r = z * invc - 1,
\* all three fused; c is the table's entry <<invc, logc, logctail>>.
LogEntry(kd, z, c) ==
    LogR(FloatFma(kd, Ln2hi, asdouble(c[2])),
         FloatFma(kd, Ln2lo, asdouble(c[3])),
         FloatFma(z, asdouble(c[1]), FloatNeg(One)))

\* tmp = ix - OFF, i = (tmp >> 45) % 128, k = (int64_t) tmp >> 52 and
\* z = asdouble(ix - (tmp & 0xfff << 52)), on the upper halves of the words
\* (the lower half of OFF is 0): z is x / 2^k.
LogAt(x, tmp) ==
    LogEntry(FloatOfInt(tmp \div 1048576),
             FloatScale(x, -(tmp \div 1048576)),
             pow_log_tab[((tmp \div 8192) % 128) + 1])

\* log_inline(ix, &lo) for a normal x > 0: log(x) as hi and lo.  OFF is
\* 0x3fe6955500000000.
log_inline(x) == LogAt(x, Top32(x) - 1072076117)

\* exp_inline(ehi, elo) for elo = y * lo + fma(y, hi, -ehi), fused.
PowExp(y, l, ehi) ==
    exp_inline(ehi, FloatFma(y, l.lo, FloatFma(l.hi, y, FloatNeg(ehi))))

\* ehi = y * hi.
PowOfLog(y, l) == PowExp(y, l, FloatMul(y, l.hi))

\* pow(x, y) of the library for a normal x > 0 and 2^-65 <= |y| < 2^63.
pow(x, y) == PowOfLog(y, log_inline(x))

\* x ** k for an int k >= 0, float_pow of CPython: 1.0 for k = 0, 0.0 for
\* x = 0, 1.0 or -1.0 for |x| = 1 and else pow(|x|, (double) k), negated for a
\* negative x and an odd k.
FloatPow(x, k) ==
    IF k = 0 THEN One
    ELSE IF x.m = <<>> THEN Float0
    ELSE IF x.neg /\ k % 2 = 1
    THEN FloatNeg(IF FloatNeg(x) = One THEN One ELSE pow(FloatNeg(x), FloatOfInt(k)))
    ELSE IF [x EXCEPT !.neg = FALSE] = One THEN One
    ELSE pow([x EXCEPT !.neg = FALSE], FloatOfInt(k))

\* math.exp(-x) for 0 <= x < 708.
FloatExpNeg(x) == exp(FloatNeg(x))

FloatRoundQuotient(neg, d) ==
    (IF neg THEN -1 ELSE 1) * (IntOf(d.q) + (IF RoundsUp(d, FALSE) THEN 1 ELSE 0))

\* n: the significand times 10^ndigits.
FloatRoundScaled(x, n) ==
    FloatRoundQuotient(x.neg, IF x.e >= 0 THEN [q |-> NatShl(n, x.e), cmp |-> -2]
                              ELSE NatShr(n, -x.e))

\* round(x, ndigits) in units of 10^-ndigits: the decimal nearest to the
\* float's exact value, ties to even (float.__round__ rounds the exact value).
FloatRoundTo(x, ndigits) == FloatRoundScaled(x, NatMulPow10(x.m, ndigits))

(***************************************************************************)
(* model.py: find_value_bets                                               *)
(***************************************************************************)
\* market_map, in its iteration order (model.py 158-164).
MarketKeys == <<"home_win", "draw", "away_win", "over_2_5", "under_2_5">>

MarketLabel(market_key) ==
    CASE market_key = "home_win"  -> "Home Win"
      [] market_key = "draw"      -> "Draw"
      [] market_key = "away_win"  -> "Away Win"
      [] market_key = "over_2_5"  -> "Over 2.5"
      [] market_key = "under_2_5" -> "Under 2.5"

\* dict.get(key): None when the key is absent.
Get(d, key) == IF key \in DOMAIN d THEN d[key] ELSE None

\* The float of a probability (given in units of 10^-5), of a price (10^-2)
\* and of a threshold (10^-7).
ProbFloat(prob)     == FloatOf(prob, 5)
PriceFloat(bk_odd)  == FloatOf(bk_odd, 2)
ThresholdFloat(thr) == FloatOf(thr, 7)

\* value = (bk_odd * prob) - 1 (model.py 178).
RawValue(bk_odd, prob) ==
    FloatSub(FloatMul(PriceFloat(bk_odd), ProbFloat(prob)), FloatOf(1, 0))

\* The tests a (bookmaker, market) pair passes to become a value bet
\* (model.py 173-179).
Qualifies(prob, bk_odd, value_threshold, min_prob) ==
    /\ prob # None
    /\ bk_odd # None
    /\ ~FloatGt(ProbFloat(min_prob), ProbFloat(prob))
    /\ FloatGt(RawValue(bk_odd, prob), ThresholdFloat(value_threshold))

\* The dict appended for a qualifying pair (model.py 180-188): bk_odds and
\* model_odds in units of 10^-3, probability and value in units of 10^-4.
ValueBet(bk_name, market_key, prob, bk_odd) ==
    [market      |-> MarketLabel(market_key),
     bookmaker   |-> bk_name,
     bk_odds     |-> FloatRoundTo(PriceFloat(bk_odd), 3),
     model_odds  |-> FloatRoundTo(FloatDiv(FloatOf(1, 0), ProbFloat(prob)), 3),
     probability |-> FloatRoundTo(ProbFloat(prob), 4),
     value       |-> FloatRoundTo(RawValue(bk_odd, prob), 4)]

\* The candidates in discovery order: bookmakers in the odds mapping's order,
\* markets in market_map's order (model.py 166-188).  k counts the pairs
\* already visited.
RECURSIVE Discover(_, _, _, _, _)
Discover(predictions, odds, value_threshold, min_prob, k) ==
    IF k >= Len(odds) * Len(MarketKeys) THEN <<>>
    ELSE LET bk         == odds[(k \div Len(MarketKeys)) + 1]
             market_key == MarketKeys[(k % Len(MarketKeys)) + 1]
             prob       == Get(predictions, market_key)
             bk_odd     == Get(bk.prices, market_key)
             rest       == Discover(predictions, odds, value_threshold, min_prob, k + 1)
         IN  IF Qualifies(prob, bk_odd, value_threshold, min_prob)
             THEN <<ValueBet(bk.bk, market_key, prob, bk_odd)>> \o rest
             ELSE rest

\* A plausible slip in the sort: a candidate goes before the candidates of
\* equal value found before it.
RECURSIVE InsertDescTiesFirst(_, _)
InsertDescTiesFirst(sorted, x) ==
    IF sorted = <<>> THEN <<x>>
    ELSE IF Head(sorted).value > x.value
         THEN <<Head(sorted)>> \o InsertDescTiesFirst(Tail(sorted), x)
         ELSE <<x>> \o sorted

\* list.sort(key=value, reverse=True): stable, descending (model.py 190).
RECURSIVE InsertDesc(_, _)
InsertDesc(sorted, x) ==
    IF sorted = <<>> THEN <<x>>
    ELSE IF Head(sorted).value >= x.value
         THEN <<Head(sorted)>> \o InsertDesc(Tail(sorted), x)
         ELSE <<x>> \o sorted

RECURSIVE SortByValueDesc(_)
SortByValueDesc(s) ==
    IF s = <<>> THEN <<>>
    ELSE InsertDesc(SortByValueDesc(SubSeq(s, 1, Len(s) - 1)), s[Len(s)])

find_value_bets(predictions, odds, value_threshold, min_prob) ==
    SortByValueDesc(Discover(predictions, odds, value_threshold, min_prob, 0))

(***************************************************************************)
(* scheduler.py: the odds index and the reconciliation (145-168)           *)
(***************************************************************************)
\* odds_lookup[key] = odds: a dict keeps the place of a key already present.
IndexPut(index, key, odds) ==
    IF \E i \in DOMAIN index : index[i].key = key
    THEN [i \in DOMAIN index |->
            IF index[i].key = key THEN [key |-> key, odds |-> odds] ELSE index[i]]
    ELSE Append(index, [key |-> key, odds |-> odds])

\* odds_lookup built from the events of the feed, in order (145-148).
RECURSIVE BuildIndex(_)
BuildIndex(odds_events) ==
    IF odds_events = <<>> THEN <<>>
    ELSE LET ev == odds_events[Len(odds_events)]
         IN  IndexPut(BuildIndex(SubSeq(odds_events, 1, Len(odds_events) - 1)),
                      <<Lower(ev.home_team), Lower(ev.away_team)>>, ev.odds)

\* odds_lookup.get((home_name.lower(), away_name.lower()), {}) (159).
ExactLookup(index, home_name, away_name) ==
    LET key == <<Lower(home_name), Lower(away_name)>>
    IN  IF \E i \in DOMAIN index : index[i].key = key
        THEN index[CHOOSE i \in DOMAIN index : index[i].key = key].odds
        ELSE <<>>

\* `k in name.lower() or name.lower() in k` (162, 163).
NameMatches(k, name) == IsSubstring(k, Lower(name)) \/ IsSubstring(Lower(name), k)

\* A plausible slip in the fuzzy rule: one side is enough.
FuzzyQualifiesEither(key, home_name, away_name) ==
    NameMatches(key[1], home_name) \/ NameMatches(key[2], away_name)

\* The two nested ifs of the fuzzy scan (162-163).
FuzzyQualifies(key, home_name, away_name) ==
    IF NameMatches(key[1], home_name)
    THEN NameMatches(key[2], away_name)
    ELSE FALSE

\* `if not odds:` after the exact lookup (160): the scan runs when the lookup
\* gave an empty mapping, whether the key is absent or its mapping is empty.
NeedsFuzzyScan(index, home_name, away_name) ==
    ExactLookup(index, home_name, away_name) = <<>>

\* A plausible slip in the fuzzy scan: the `break` of line 165 is missing, and
\* the last qualifying entry is the one kept.
ReconcileOddsNoBreak(index, home_name, away_name) ==
    IF ~NeedsFuzzyScan(index, home_name, away_name)
    THEN LET key == <<Lower(home_name), Lower(away_name)>>
         IN  [odds |-> ExactLookup(index, home_name, away_name), via |-> "exact",
              at |-> CHOOSE i \in DOMAIN index : index[i].key = key]
    ELSE LET hits == {i \in DOMAIN index : FuzzyQualifies(index[i].key, home_name, away_name)}
         IN  IF hits = {} THEN [odds |-> <<>>, via |-> "none", at |-> 0]
             ELSE LET last == CHOOSE i \in hits : \A j \in hits : i >= j
                  IN  [odds |-> index[last].odds, via |-> "fuzzy", at |-> last]

\* Lines 159-165: the odds used for the fixture, with the way they were found
\* (via) and the place in the index of the entry accepted (at, 0 for none).
ReconcileOdds(index, home_name, away_name) ==
    IF ~NeedsFuzzyScan(index, home_name, away_name)
    THEN LET key == <<Lower(home_name), Lower(away_name)>>
         IN  [odds |-> ExactLookup(index, home_name, away_name), via |-> "exact",
              at |-> CHOOSE i \in DOMAIN index : index[i].key = key]
    ELSE LET hits == {i \in DOMAIN index : FuzzyQualifies(index[i].key, home_name, away_name)}
         IN  IF hits = {} THEN [odds |-> <<>>, via |-> "none", at |-> 0]
             ELSE LET first == CHOOSE i \in hits : \A j \in hits : i <= j
                  IN  [odds |-> index[first].odds, via |-> "fuzzy", at |-> first]


(***************************************************************************)
(* Input sets of SpecScore and SpecMatch                                   *)
(***************************************************************************)
MaxBookmakers == 2
MaxEvents     == 2

\* The titles of TARGET_BOOKMAKERS (api_clients.py 138), as get_odds names the
\* bookmakers of an event (169).
BookmakerNames == <<"Winamax", "Betclic", "Bet365", "William Hill", "Unibet">>

\* Price maps of one bookmaker: market key -> decimal price * 100.  get_odds
\* delivers the three h2h keys (api_clients.py 175-179); the price of an
\* outcome the bookmaker does not quote is None.
PriceMaps ==
    { [m \in {"home_win", "draw", "away_win"} |->
         CASE m = "home_win" -> 210 [] m = "draw" -> 340 [] m = "away_win" -> 450],
      [m \in {"home_win", "draw", "away_win"} |->
         CASE m = "home_win" -> 187 [] m = "draw" -> 225 [] m = "away_win" -> 400],
      [m \in {"home_win", "draw", "away_win"} |->
         CASE m = "home_win" -> 225 [] m = "draw" -> None [] m = "away_win" -> 450] }

\* Odds mappings bookmaker -> price map, in insertion order.
OddsMappings(n) ==
    UNION { { [i \in 1..k |-> [bk |-> BookmakerNames[i], prices |-> f[i]]] :
                f \in [1..k -> PriceMaps] } : k \in 0..n }

\* Predictions: market key -> probability * 10^5, as predict_match returns
\* them for the lambdas (2.19, 1.42), (1.56, 0.77) and (1.15, 0.57).
ScorePredictions ==
    { [m \in Range(MarketKeys) |->
         CASE m = "home_win" -> 55000 [] m = "draw" -> 20420 [] m = "away_win" -> 24530
           [] m = "over_2_5" -> 69850 [] m = "under_2_5" -> 30150],
      [m \in Range(MarketKeys) |->
         CASE m = "home_win" -> 56150 [] m = "draw" -> 25430 [] m = "away_win" -> 18420
           [] m = "over_2_5" -> 41190 [] m = "under_2_5" -> 58810],
      [m \in Range(MarketKeys) |->
         CASE m = "home_win" -> 50000 [] m = "draw" -> 31710 [] m = "away_win" -> 18290
           [] m = "over_2_5" -> 24810 [] m = "under_2_5" -> 75190] }

\* value_threshold * 10^7: 0.05, 0.125, 0.20.  min_prob * 10^5: 0.20, 0.50, 0.55.
ScoreThresholds == {500000, 1250000, 2000000}
ScoreMinProbs   == {20000, 50000, 55000}


\* Team names of the fixtures feed and of the odds feed.
ParisSG           == <<"P","a","r","i","s"," ","S","G">>
PSG               == <<"P","S","G">>
Paris             == <<"P","a","r","i","s">>
ParisSaintGermain == <<"P","a","r","i","s"," ","S","a","i","n","t"," ",
                       "G","e","r","m","a","i","n">>
Lyon              == <<"L","y","o","n">>
Lyonnais          == <<"L","y","o","n","n","a","i","s">>
Nice              == <<"N","i","c","e">>

\* The odds of an event: bookmaker -> price map, possibly empty (an event no
\* target bookmaker quotes: api_clients.py 168-186).
OddsA == <<[bk |-> "Winamax",
            prices |-> [m \in {"home_win", "draw", "away_win"} |->
               CASE m = "home_win" -> 210 [] m = "draw" -> 340 [] m = "away_win" -> 450]]>>
OddsB == <<[bk |-> "Winamax",
            prices |-> [m \in {"home_win", "draw", "away_win"} |->
               CASE m = "home_win" -> 210 [] m = "draw" -> 340 [] m = "away_win" -> 450]],
           [bk |-> "Betclic",
            prices |-> [m \in {"home_win", "draw", "away_win"} |->
               CASE m = "home_win" -> 187 [] m = "draw" -> 225 [] m = "away_win" -> 400]]>>

\* The odds of an event only Betclic quotes.
OddsC == <<[bk |-> "Betclic",
            prices |-> [m \in {"home_win", "draw", "away_win"} |->
               CASE m = "home_win" -> 187 [] m = "draw" -> 225 [] m = "away_win" -> 400]]>>

MatchEvents ==
    [home_team : {ParisSaintGermain, Paris}, away_team : {Lyon, Nice},
     odds : {<<>>, OddsA, OddsB}]

MatchFixtures ==
    [home_team_name : {ParisSG, PSG, Paris}, away_team_name : {Lyon, Lyonnais}]


(***************************************************************************)
(* scheduler.py: configuration and the worker's state                      *)
(***************************************************************************)
LEAGUES == <<61, 39>>

LEAGUE_NAMES(league_id) == IF league_id = 61 THEN "Ligue 1" ELSE "Premier League"

VALUE_THRESHOLD == 500000      \* 0.05, in units of 10^-7
MIN_PROBABILITY == 55000       \* 0.55, in units of 10^-5

\* The threads that call run_value_bet_engine and refresh_team_stats: the
\* scheduler's job thread and a thread handle_run / handle_refresh starts.
Threads == {"sched", "cmd"}

MaxInvocations == 3

TeamIds == {1, 2}

\* Positions at which a thread is outside both functions.
Quiescent == {"idle", "done", "rejected", "raised"}

\* Positions of run_value_bet_engine past the guard of lines 87-89.
InBody == {"set", "fixtures", "stats", "refresh", "refresh_save", "reload", "odds",
           "fixture", "save", "finish", "summary", "digest"}

NoLocal ==
    [fn |-> "none", silent |-> FALSE, li |-> 0, fixtures |-> <<>>,
     teams |-> <<>>, ti |-> 0, team_stats |-> {}, odds_lookup |-> <<>>, fi |-> 0, value_bets |-> <<>>,
     bi |-> 0, all_value_bets |-> <<>>, errors |-> <<>>, results |-> <<>>,
     log |-> <<>>]

\* One external call of an invocation: what was called, for which league
\* (0: none), and how it ended.
Call(name, league_id, outcome) ==
    [call |-> name, league |-> league_id, outcome |-> outcome]

\* Fixtures of the feed (api_clients.get_fixtures): team 3 has no standings row.
Fx1 == [home_team_id |-> 1, away_team_id |-> 2,
        home_team_name |-> Paris, away_team_name |-> Lyon, date |-> "2024-05-01"]
Fx2 == [home_team_id |-> 1, away_team_id |-> 3,
        home_team_name |-> ParisSG, away_team_name |-> Nice, date |-> "2024-05-02"]

Ev1 == [home_team |-> Paris, away_team |-> Lyon, odds |-> OddsA]
Ev2 == [home_team |-> ParisSaintGermain, away_team |-> Lyon, odds |-> OddsB]
Ev3 == [home_team |-> Paris, away_team |-> Lyon, odds |-> <<>>]

\* Predictions predict_match returns for two teams with strengths (for the
\* lambdas (1.74, 0.79) and (1.2, 1.2)): one with a quoted market above
\* MIN_PROBABILITY, one without.
PredStrong == [m \in Range(MarketKeys) |->
                 CASE m = "home_win" -> 60000 [] m = "draw" -> 23310
                   [] m = "away_win" -> 16680 [] m = "over_2_5" -> 46380
                   [] m = "under_2_5" -> 53620]
PredEven   == [m \in Range(MarketKeys) |->
                 CASE m = "home_win" -> 36170 [] m = "draw" -> 27660
                   [] m = "away_win" -> 36170 [] m = "over_2_5" -> 43030
                   [] m = "under_2_5" -> 56970]

\* find_value_bets(predictions, odds, VALUE_THRESHOLD, MIN_PROBABILITY), the
\* call of scheduler.py 170-174; the results for the predictions and the odds
\* of the feeds are computed once.
ConfiguredValueBets ==
    [predictions \in {PredStrong, PredEven}, odds \in {OddsA, OddsB, OddsC} |->
        find_value_bets(predictions, odds, VALUE_THRESHOLD, MIN_PROBABILITY)]

EngineValueBets(predictions, odds) ==
    IF <<predictions, odds>> \in DOMAIN ConfiguredValueBets
    THEN ConfiguredValueBets[predictions, odds]
    ELSE find_value_bets(predictions, odds, VALUE_THRESHOLD, MIN_PROBABILITY)

\* What the outside world may answer.  RichEnv: one invocation at a time, every
\* answer of the feeds.  LeanEnv: invocations overlap, the feeds answer less.
RichEnv ==
    [threads       |-> {"sched"},
     overlap       |-> FALSE,
     fixtureFeeds  |-> {<<>>, <<Fx1>>, <<Fx1, Fx2>>},
     standings     |-> {<<>>, <<1, 2>>},
     oddsFeeds     |-> {<<>>, <<Ev1>>, <<Ev2, Ev3>>},
     predictions   |-> {PredStrong, PredEven},
     failures      |-> {"get_fixtures", "get_team_stats", "get_team_standings",
                        "save_team_stats", "get_odds", "save_bet"}]

LeanEnv ==
    [threads       |-> Threads,
     overlap       |-> TRUE,
     fixtureFeeds  |-> {<<>>, <<Fx1>>},
     standings     |-> {<<1, 2>>},
     oddsFeeds     |-> {<<Ev1>>},
     predictions   |-> {PredStrong},
     failures      |-> {"get_fixtures", "get_team_stats"}]

\* The polling thread not started, the update queue empty.
PollIdle ==
    /\ TELEGRAM_CHAT = "42"
    /\ tg = [inbox |-> <<>>, forgotten |-> 0]
    /\ poll = [stage |-> "off", offset |-> None, updates |-> <<>>,
               handled |-> <<>>, handler |-> "none", spawned |-> "none"]

EngineInit ==
    /\ worker_state = [started_at |-> None, last_run |-> None, last_refresh |-> None,
                       bets_today |-> 0, running |-> FALSE]
    /\ pc = [t \in Threads |-> "idle"]
    /\ local = [t \in Threads |-> NoLocal]
    /\ db_team_stats \in [Range(LEAGUES) -> {{}, TeamIds}]
    /\ db_bets = 0
    /\ now = 1
    /\ invocations = 0
    /\ PollIdle

\* The engine at rest, for the specifications of the pure functions.
EngineIdle ==
    /\ worker_state = [started_at |-> None, last_run |-> None, last_refresh |-> None,
                       bets_today |-> 0, running |-> FALSE]
    /\ pc = [t \in Threads |-> "idle"]
    /\ local = [t \in Threads |-> NoLocal]
    /\ db_team_stats = [l \in Range(LEAGUES) |-> {}]
    /\ db_bets = 0
    /\ now = 1
    /\ invocations = 0
    /\ PollIdle

PureIdle ==
    /\ fv_in = None /\ fv_out = None
    /\ rc_in = None /\ rc_out = None
    /\ pr_in = None /\ pr_out = None
    /\ cs_in = None /\ cs_out = None
    /\ ds_in = None /\ ds_out = None

(***************************************************************************)
(* Steps of a thread                                                       *)
(***************************************************************************)
Goto(t, p)  == pc' = [pc EXCEPT ![t] = p]
Keep(t, L)  == local' = [local EXCEPT ![t] = L]
Logged(L, c) == [L EXCEPT !.log = Append(@, c)]

\* worker_state["started_at"] = datetime.now(timezone.utc) (scheduler.py 401):
\* run_scheduler, the `schedule` command of the command line, stamps the start
\* before it starts the polling thread and the scheduler's jobs.  Without it
\* the process is `run` or `refresh` of the command line (lines 450-455), and
\* started_at stays None.
RunScheduler ==
    /\ worker_state.started_at = None
    /\ invocations = 0
    /\ worker_state' = [worker_state EXCEPT !.started_at = now]
    /\ now' = now + 1
    /\ UNCHANGED <<scoreVars, matchVars, predVars, strengthVars, summaryVars, pollVars, pc, local, db_team_stats, db_bets, invocations>>

\* silent: only the scheduler's refresh job passes silent=True (line 414), and
\* the scheduler has jobs once run_scheduler has run; the command line and the
\* handlers leave the default (lines 309, 315, 451).
IsSilent(t, fn, ws) == t = "sched" /\ fn = "refresh" /\ ws.started_at # None

\* A scheduled job, handle_run / handle_refresh, or the command line starts fn
\* on thread t (scheduler.py 309-310, 315-316, 411-420, 450-455).
Invoke(t, fn, env) ==
    /\ t \in env.threads
    /\ pc[t] \in Quiescent
    /\ env.overlap \/ \A u \in Threads : pc[u] \in Quiescent
    /\ invocations < MaxInvocations
    /\ invocations' = invocations + 1
    /\ Keep(t, [NoLocal EXCEPT !.fn = fn, !.silent = IsSilent(t, fn, worker_state),
                               !.li = 1])
    /\ Goto(t, IF fn = "run" THEN "guard" ELSE "r_league")
    /\ UNCHANGED <<scoreVars, matchVars, predVars, strengthVars, summaryVars, pollVars, worker_state, db_team_stats, db_bets, now>>

\* A plausible slip in the guard: the flag is not consulted.
GuardRejectsNever(ws) == FALSE

\* if worker_state["running"]: (scheduler.py 87)
GuardRejects(ws) == ws.running

\* Line 87: the read of the flag.  The write of line 91 is another step.
Guard(t) ==
    /\ pc[t] = "guard"
    /\ Goto(t, IF GuardRejects(worker_state) THEN "reject" ELSE "set")
    /\ UNCHANGED <<scoreVars, matchVars, predVars, strengthVars, summaryVars, pollVars, worker_state, local, db_team_stats, db_bets, now, invocations>>

\* Lines 88-89: the notification of the rejected call, and its return.
Reject(t) ==
    /\ pc[t] = "reject"
    /\ Keep(t, Logged(local[t], Call("send_message", 0, "already running")))
    /\ Goto(t, "rejected")
    /\ UNCHANGED <<scoreVars, matchVars, predVars, strengthVars, summaryVars, pollVars, worker_state, db_team_stats, db_bets, now, invocations>>

\* Lines 91-101: the flag is set, the start is announced unless silent, and
\* the run's lists start empty.
SetRunning(t) ==
    /\ pc[t] = "set"
    /\ worker_state' = [worker_state EXCEPT !.running = TRUE]
    /\ Keep(t, IF local[t].silent THEN local[t]
               ELSE Logged(local[t], Call("send_message", 0, "started")))
    /\ Goto(t, IF Len(LEAGUES) = 0 THEN "finish" ELSE "fixtures")
    /\ UNCHANGED <<scoreVars, matchVars, predVars, strengthVars, summaryVars, pollVars, db_team_stats, db_bets, now, invocations>>


\* A plausible slip in the league loop: the league is not left, and is
\* fetched again.
NextLeagueStays(L) ==
    [L EXCEPT !.fixtures = <<>>, !.teams = <<>>, !.ti = 0, !.team_stats = {},
              !.odds_lookup = <<>>, !.fi = 0, !.value_bets = <<>>, !.bi = 0]

\* `continue` of the league loop, or its end (scheduler.py 103): the locals of
\* the league are dropped, the run's lists are kept.
NextLeague(L) ==
    [L EXCEPT !.li = @ + 1, !.fixtures = <<>>, !.teams = <<>>, !.ti = 0,
              !.team_stats = {}, !.odds_lookup = <<>>, !.fi = 0, !.value_bets = <<>>, !.bi = 0]

\* A plausible slip in the league loop: `break` for `continue`.
AfterLeagueBreaks(L) == "finish"

AfterLeague(L) == IF L.li < Len(LEAGUES) THEN "fixtures" ELSE "finish"

\* `continue` of the fixture loop, or its end (scheduler.py 151).
NextFixture(L) ==
    IF L.fi < Len(L.fixtures)
    THEN [L EXCEPT !.fi = @ + 1, !.value_bets = <<>>, !.bi = 0]
    ELSE NextLeague(L)

\* A plausible slip in the fixture loop: `break` for `continue`.
AfterFixtureBreaks(L) == AfterLeague(L)

AfterFixture(L) == IF L.fi < Len(L.fixtures) THEN "fixture" ELSE AfterLeague(L)

\* A plausible slip in the handlers: the error is swallowed.
WithErrorDropped(L, stage) == L

\* errors.append(f"<stage> {league_name}: {e}") (scheduler.py 112, 130, 142).
WithError(L, stage) ==
    [L EXCEPT !.errors = Append(@, [stage |-> stage,
                                    league |-> LEAGUE_NAMES(LEAGUES[L.li])])]

\* Lines 107-117: the fixtures of the league.
FetchFixtures(t, env) ==
    /\ pc[t] = "fixtures"
    /\ LET L   == local[t]
           lid == LEAGUES[L.li]
       IN  \/ /\ "get_fixtures" \in env.failures
              /\ Keep(t, NextLeague(WithError(
                           Logged(L, Call("get_fixtures", lid, "raise")), "Fixtures")))
              /\ Goto(t, AfterLeague(L))
           \/ \E fixtures \in env.fixtureFeeds :
                LET L1 == Logged(L, Call("get_fixtures", lid, "ok"))
                IN  IF fixtures = <<>>
                    THEN Keep(t, NextLeague(L1)) /\ Goto(t, AfterLeague(L))
                    ELSE Keep(t, [L1 EXCEPT !.fixtures = fixtures]) /\ Goto(t, "stats")
    /\ UNCHANGED <<scoreVars, matchVars, predVars, strengthVars, summaryVars, pollVars, worker_state, db_team_stats, db_bets, now, invocations>>

\* Line 120: the stored stats of the league.  The call stands outside every
\* try: an error of the database leaves run_value_bet_engine.
LoadStats(t, env) ==
    /\ pc[t] = "stats"
    /\ LET L   == local[t]
           lid == LEAGUES[L.li]
       IN  \/ /\ "get_team_stats" \in env.failures
              /\ Keep(t, Logged(L, Call("get_team_stats", lid, "raise")))
              /\ Goto(t, "raised")
           \/ /\ Keep(t, [Logged(L, Call("get_team_stats", lid, "ok"))
                            EXCEPT !.team_stats = db_team_stats[lid]])
              /\ Goto(t, IF db_team_stats[lid] = {} THEN "refresh" ELSE "odds")
    /\ UNCHANGED <<scoreVars, matchVars, predVars, strengthVars, summaryVars, pollVars, worker_state, db_team_stats, db_bets, now, invocations>>

\* Lines 123, 129-131: the standings of the league are fetched; an error ends
\* the league with an error string.  The saves of line 125 are steps of their
\* own: each is a transaction of the database (database.py 156-182).
AutoRefresh(t, env) ==
    /\ pc[t] = "refresh"
    /\ LET L   == local[t]
           lid == LEAGUES[L.li]
       IN  \/ /\ "get_team_standings" \in env.failures
              /\ Keep(t, NextLeague(WithError(
                     Logged(L, Call("get_team_standings", lid, "raise")), "Auto-refresh")))
              /\ Goto(t, AfterLeague(L))
           \/ \E teams \in env.standings :
                LET L1 == Logged(L, Call("get_team_standings", lid, "ok"))
                IN  IF teams = <<>>
                    THEN Keep(t, L1) /\ Goto(t, "reload")
                    ELSE Keep(t, [L1 EXCEPT !.teams = teams, !.ti = 1])
                         /\ Goto(t, "refresh_save")
    /\ UNCHANGED <<scoreVars, matchVars, predVars, strengthVars, summaryVars, pollVars, worker_state, db_team_stats, db_bets, now, invocations>>

\* Lines 124-125, 129-131: save_team_stats(t) for one team of the standings,
\* committed when it returns; an error ends the league with an error string
\* and leaves the rows of the teams saved before it.
AutoRefreshSave(t, env) ==
    /\ pc[t] = "refresh_save"
    /\ LET L   == local[t]
           lid == LEAGUES[L.li]
       IN  \/ /\ "save_team_stats" \in env.failures
              /\ Keep(t, NextLeague(WithError(
                     Logged(L, Call("save_team_stats", lid, "raise")), "Auto-refresh")))
              /\ Goto(t, AfterLeague(L))
              /\ UNCHANGED db_team_stats
           \/ /\ db_team_stats' = [db_team_stats EXCEPT ![lid] = @ \cup {L.teams[L.ti]}]
              /\ IF L.ti < Len(L.teams)
                 THEN Keep(t, [L EXCEPT !.ti = @ + 1]) /\ Goto(t, "refresh_save")
                 ELSE Keep(t, [L EXCEPT !.teams = <<>>, !.ti = 0]) /\ Goto(t, "reload")
    /\ UNCHANGED <<scoreVars, matchVars, predVars, strengthVars, summaryVars, pollVars, worker_state, db_bets, now, invocations>>

\* Lines 127-128, within the try of line 123: the stats are read again.  No
\* test of the result follows: the league goes on to line 133 whatever it is.
Reload(t, env) ==
    /\ pc[t] = "reload"
    /\ LET L   == local[t]
           lid == LEAGUES[L.li]
       IN  \/ /\ "get_team_stats" \in env.failures
              /\ Keep(t, NextLeague(WithError(
                     Logged(L, Call("get_team_stats", lid, "raise")), "Auto-refresh")))
              /\ Goto(t, AfterLeague(L))
           \/ LET L1 == [Logged(L, Call("get_team_stats", lid, "ok"))
                           EXCEPT !.team_stats = db_team_stats[lid]]
              IN  Keep(t, L1) /\ Goto(t, "odds")
    /\ UNCHANGED <<scoreVars, matchVars, predVars, strengthVars, summaryVars, pollVars, worker_state, db_team_stats, db_bets, now, invocations>>

\* Lines 133-148: averages and strengths of the teams that have stats, the
\* odds of the league (an error leaves an empty list), and the odds index.
FetchOdds(t, env) ==
    /\ pc[t] = "odds"
    /\ LET L   == local[t]
           lid == LEAGUES[L.li]
       IN  \/ /\ "get_odds" \in env.failures
              /\ Keep(t, [WithError(Logged(L, Call("get_odds", lid, "raise")), "Cotes")
                            EXCEPT !.odds_lookup = BuildIndex(<<>>), !.fi = 1])
           \/ \E odds_events \in env.oddsFeeds :
                Keep(t, [Logged(L, Call("get_odds", lid, "ok"))
                           EXCEPT !.odds_lookup = BuildIndex(odds_events), !.fi = 1])
    /\ Goto(t, "fixture")
    /\ UNCHANGED <<scoreVars, matchVars, predVars, strengthVars, summaryVars, pollVars, worker_state, db_team_stats, db_bets, now, invocations>>


\* A plausible slip in predict_match: the test of line 121 is missing.
HasPredictionAlways(home_team_id, away_team_id, strengths) == TRUE

\* model.py 118-122: predict_match gives a prediction when both teams have
\* strengths, and None otherwise.  strengths has one entry per team of
\* team_stats (model.py 80-97).
HasPrediction(home_team_id, away_team_id, strengths) ==
    home_team_id \in strengths /\ away_team_id \in strengths

\* match_info of lines 171-174.
MatchInfo(fix, league_name) ==
    [date |-> fix.date, home_team |-> fix.home_team_name,
     away_team |-> fix.away_team_name, league |-> league_name]

\* Lines 151-174: one fixture is predicted, its odds are looked up, and its
\* value bets are computed.  The probabilities of the prediction are an answer
\* of the environment.
Fixture(t, env) ==
    /\ pc[t] = "fixture"
    /\ LET L   == local[t]
           fix == L.fixtures[L.fi]
       IN  IF ~HasPrediction(fix.home_team_id, fix.away_team_id, L.team_stats)
           THEN Keep(t, NextFixture(L)) /\ Goto(t, AfterFixture(L))
           ELSE \E prediction \in env.predictions :
                  LET odds == ReconcileOdds(L.odds_lookup, fix.home_team_name,
                                            fix.away_team_name).odds
                      value_bets == EngineValueBets(prediction, odds)
                  IN  IF odds = <<>> \/ value_bets = <<>>
                      THEN Keep(t, NextFixture(L)) /\ Goto(t, AfterFixture(L))
                      ELSE /\ Keep(t, [L EXCEPT !.value_bets = value_bets, !.bi = 1])
                           /\ Goto(t, "save")
    /\ UNCHANGED <<scoreVars, matchVars, predVars, strengthVars, summaryVars, pollVars, worker_state, db_team_stats, db_bets, now, invocations>>

\* Lines 176-188: one value bet is saved and joins the run's batch; a bet whose
\* save raises is logged and left out.
SaveBet(t, env) ==
    /\ pc[t] = "save"
    /\ LET L    == local[t]
           lid  == LEAGUES[L.li]
           bet  == L.value_bets[L.bi]
           info == MatchInfo(L.fixtures[L.fi], LEAGUE_NAMES(lid))
           Step(L1) == IF L.bi < Len(L.value_bets)
                       THEN Keep(t, [L1 EXCEPT !.bi = @ + 1]) /\ Goto(t, "save")
                       ELSE Keep(t, NextFixture(L1)) /\ Goto(t, AfterFixture(L))
       IN  \/ /\ "save_bet" \in env.failures
              /\ Step(Logged(L, Call("save_bet", lid, "raise")))
              /\ UNCHANGED db_bets
           \/ /\ Step([Logged(L, Call("save_bet", lid, "ok"))
                         EXCEPT !.all_value_bets = Append(@, <<bet, info>>)])
              /\ db_bets' = db_bets + 1
    /\ UNCHANGED <<scoreVars, matchVars, predVars, strengthVars, summaryVars, pollVars, worker_state, db_team_stats, now, invocations>>

\* A plausible slip at the end of the run: the count is the number of rows of
\* the bets table, the rows of earlier runs included.
FinishCountsTable(t) ==
    /\ pc[t] = "finish"
    /\ worker_state' = [worker_state EXCEPT !.last_run = now,
                                            !.bets_today = db_bets,
                                            !.running = FALSE]
    /\ now' = now + 1
    /\ Goto(t, "summary")
    /\ UNCHANGED <<scoreVars, matchVars, predVars, strengthVars, summaryVars, pollVars, local, db_team_stats, db_bets, invocations>>

\* Lines 190-192: the end of the run.
Finish(t) ==
    /\ pc[t] = "finish"
    /\ worker_state' = [worker_state EXCEPT !.last_run = now,
                                            !.bets_today = Len(local[t].all_value_bets),
                                            !.running = FALSE]
    /\ now' = now + 1
    /\ Goto(t, "summary")
    /\ UNCHANGED <<scoreVars, matchVars, predVars, strengthVars, summaryVars, pollVars, local, db_team_stats, db_bets, invocations>>

\* Lines 194-199, two steps, each a wait for Telegram.  At "summary" the batch
\* goes to send_daily_summary (line 194); at "digest", reached when the run
\* has errors (line 196), they go out in one message (line 197).
Summary(t) ==
    /\ pc[t] \in {"summary", "digest"}
    /\ IF pc[t] = "summary"
       THEN /\ Keep(t, Logged(local[t], Call("send_daily_summary", 0, "ok")))
            /\ Goto(t, IF local[t].errors # <<>> THEN "digest" ELSE "done")
       ELSE /\ Keep(t, Logged(local[t], Call("send_message", 0, "errors")))
            /\ Goto(t, "done")
    /\ UNCHANGED <<scoreVars, matchVars, predVars, strengthVars, summaryVars, pollVars, worker_state, db_team_stats, db_bets, now, invocations>>

(***************************************************************************)
(* scheduler.py: refresh_team_stats (60-82)                                *)
(***************************************************************************)
\* Lines 69-75: the outcome of a league, good or bad, is one line of results,
\* and the loop goes on to the next league.
RefreshResult(L, ok) ==
    [L EXCEPT !.li = @ + 1, !.teams = <<>>, !.ti = 0,
              !.results = Append(@, [ok |-> ok, league |-> LEAGUE_NAMES(LEAGUES[L.li])])]

AfterRefreshLeague(L) == IF L.li < Len(LEAGUES) THEN "r_league" ELSE "r_finish"

\* Lines 64-66, 72-75: the standings of one league are fetched.  The saves of
\* line 68 are steps of their own: each is a transaction of the database.
RefreshLeague(t, env) ==
    /\ pc[t] = "r_league"
    /\ LET L    == local[t]
           lid  == LEAGUES[L.li]
       IN  \/ /\ "get_team_standings" \in env.failures
              /\ Keep(t, RefreshResult(
                     Logged(L, Call("get_team_standings", lid, "raise")), FALSE))
              /\ Goto(t, AfterRefreshLeague(L))
           \/ \E teams \in env.standings :
                LET L1 == Logged(L, Call("get_team_standings", lid, "ok"))
                IN  IF teams = <<>>
                    THEN Keep(t, RefreshResult(L1, TRUE)) /\ Goto(t, AfterRefreshLeague(L))
                    ELSE Keep(t, [L1 EXCEPT !.teams = teams, !.ti = 1])
                         /\ Goto(t, "r_save")
    /\ UNCHANGED <<scoreVars, matchVars, predVars, strengthVars, summaryVars, pollVars, worker_state, db_team_stats, db_bets, now, invocations>>

\* Lines 67-75: save_team_stats(t) for one team of the standings, committed
\* when it returns; an error ends the league and leaves the rows saved before.
RefreshSave(t, env) ==
    /\ pc[t] = "r_save"
    /\ LET L   == local[t]
           lid == LEAGUES[L.li]
       IN  \/ /\ "save_team_stats" \in env.failures
              /\ Keep(t, RefreshResult(
                     Logged(L, Call("save_team_stats", lid, "raise")), FALSE))
              /\ Goto(t, AfterRefreshLeague(L))
              /\ UNCHANGED db_team_stats
           \/ /\ db_team_stats' = [db_team_stats EXCEPT ![lid] = @ \cup {L.teams[L.ti]}]
              /\ IF L.ti < Len(L.teams)
                 THEN Keep(t, [L EXCEPT !.ti = @ + 1]) /\ Goto(t, "r_save")
                 ELSE Keep(t, RefreshResult(L, TRUE)) /\ Goto(t, AfterRefreshLeague(L))
    /\ UNCHANGED <<scoreVars, matchVars, predVars, strengthVars, summaryVars, pollVars, worker_state, db_bets, now, invocations>>

\* A plausible variant of the stamp: only a refresh without a failed league
\* is stamped.
RefreshStampOnlyIfClean(ws, results, time) ==
    IF \A i \in DOMAIN results : results[i].ok
    THEN [ws EXCEPT !.last_refresh = time]
    ELSE ws

\* worker_state["last_refresh"] = datetime.now(timezone.utc) (line 77): after
\* the loop, whatever the results.
RefreshStamp(ws, results, time) == [ws EXCEPT !.last_refresh = time]

\* Lines 77-82: the stamp, the report unless silent, and the return.
RefreshFinish(t) ==
    /\ pc[t] = "r_finish"
    /\ worker_state' = RefreshStamp(worker_state, local[t].results, now)
    /\ now' = now + 1
    /\ Keep(t, IF local[t].silent THEN local[t]
               ELSE Logged(local[t], Call("send_message", 0, "refresh done")))
    /\ Goto(t, "done")
    /\ UNCHANGED <<scoreVars, matchVars, predVars, strengthVars, summaryVars, pollVars, db_team_stats, db_bets, invocations>>

(***************************************************************************)
(* The worker                                                              *)
(***************************************************************************)
ThreadStep(t, env) ==
    \/ Invoke(t, "run", env)
    \/ Invoke(t, "refresh", env)
    \/ Guard(t)
    \/ Reject(t)
    \/ SetRunning(t)
    \/ FetchFixtures(t, env)
    \/ LoadStats(t, env)
    \/ AutoRefresh(t, env)
    \/ AutoRefreshSave(t, env)
    \/ Reload(t, env)
    \/ FetchOdds(t, env)
    \/ Fixture(t, env)
    \/ SaveBet(t, env)
    \/ Finish(t)
    \/ Summary(t)
    \/ RefreshLeague(t, env)
    \/ RefreshSave(t, env)
    \/ RefreshFinish(t)

Init == EngineInit /\ PureIdle

\* One invocation at a time, every answer of the feeds.
Next == RunScheduler \/ \E t \in Threads : ThreadStep(t, RichEnv)

Spec == Init /\ [][Next]_vars

\* Invocations overlap.
NextOverlap == RunScheduler \/ \E t \in Threads : ThreadStep(t, LeanEnv)

SpecOverlap == Init /\ [][NextOverlap]_vars


(***************************************************************************)
(* scheduler.py: telegram_polling (333-390) and the command handlers       *)
(***************************************************************************)
MaxUpdates == 2

\* The characters of Latin-1 that str.strip() and str.split() take for
\* whitespace: U+0009..U+000D, U+001C..U+001F, the space, U+0085 and U+00A0.
Whitespace == {"\t", "\n", "", "\f", "\r", "", "", "", "", " ", "", " "}

\* text.strip().split()[0] (line 365): the first run of characters that are
\* not whitespace; a text without one has no word 0.
RECURSIVE DropSpaces(_)
DropSpaces(text) ==
    IF text = <<>> THEN <<>>
    ELSE IF Head(text) \in Whitespace THEN DropSpaces(Tail(text)) ELSE text

RECURSIVE TakeWord(_)
TakeWord(text) ==
    IF text = <<>> \/ Head(text) \in Whitespace THEN <<>>
    ELSE <<Head(text)>> \o TakeWord(Tail(text))

HasWord(text) == DropSpaces(text) # <<>>

FirstWord(text) == TakeWord(DropSpaces(text))

\* COMMANDS (lines 319-326): the command texts, and the handler of each.
COMMANDS ==
    <<[text |-> <<"/","h","e","l","p">>,             handler |-> "help"],
      [text |-> <<"/","s","t","a","t","u","s">>,     handler |-> "status"],
      [text |-> <<"/","b","e","t","s">>,             handler |-> "bets"],
      [text |-> <<"/","s","t","a","t","s">>,         handler |-> "stats"],
      [text |-> <<"/","r","u","n">>,                 handler |-> "run"],
      [text |-> <<"/","r","e","f","r","e","s","h">>, handler |-> "refresh"]>>

InCommands(text) == \E i \in DOMAIN COMMANDS : COMMANDS[i].text = text

HandlerOf(text) == COMMANDS[CHOOSE i \in DOMAIN COMMANDS : COMMANDS[i].text = text].handler

\* A plausible slip in the dispatch: no fallback to help.
DispatchNoFallback(text) ==
    IF InCommands(text) THEN HandlerOf(text) ELSE "none"

\* Lines 375-384: the handler a word is dispatched to; "none" when the word is
\* no command and does not start with a slash.
Dispatch(text) ==
    IF InCommands(text) THEN HandlerOf(text)
    ELSE IF Head(text) = "/" THEN "help"
    ELSE "none"

\* if TELEGRAM_CHAT and from_id != TELEGRAM_CHAT: (line 371)
GateRejects(chat, from_id) == chat # "" /\ from_id # chat

\* Where the loop goes on after an update: the next update of the batch (line
\* 363), or the next getUpdates (line 360) after the last.
NextStage(rest) == IF rest = <<>> THEN "get" ELSE "handle"

\* A plausible slip in handle_run / handle_refresh: t.join() after t.start(),
\* so that the loop stays in the handler.
AfterStartJoin(rest) == "join"

\* handle_run and handle_refresh end with t.start() (lines 309-310, 315-316):
\* nothing joins the thread, the handler returns and the loop goes on.
AfterStart(rest) == NextStage(rest)

\* How a handler may end: get_all_bets and get_stats read the database.
HandlerOutcomes(handler) ==
    IF handler \in {"bets", "stats"} THEN {"ok", "raise"} ELSE {"ok"}

\* Texts of messages: a command with a capital, a tab before it and a second
\* word on the next line; commands; an unknown command; plain words; no text.
MsgRunNow  == <<"\t","/","R","u","n","\n","n","o","w">>
MsgStatus  == <<"/","s","t","a","t","u","s">>
MsgRefresh == <<"/","r","e","f","r","e","s","h">>
MsgBets    == <<"/","b","e","t","s">>
MsgFoo     == <<"/","f","o","o">>
MsgHello   == <<"h","e","l","l","o">>
MsgEmpty   == <<>>

MessageTexts == {MsgRunNow, MsgStatus, MsgRefresh, MsgBets, MsgFoo, MsgHello, MsgEmpty}

\* The messages that arrive: every text from chat 42, a command that starts a
\* worker and one that does not from chat 7.
Messages ==
    {[text |-> text, chat |-> "42"] : text \in MessageTexts}
      \cup {[text |-> text, chat |-> "7"] : text \in {MsgRunNow, MsgStatus}}

\* The updates of the queue that getUpdates returns from update_id first on.
UpdatesFrom(inbox, first) ==
    [i \in 1..(IF first > Len(inbox) THEN 0 ELSE Len(inbox) - first + 1) |->
        [update_id |-> first + i - 1,
         text |-> inbox[first + i - 1].text,
         chat |-> inbox[first + i - 1].chat]]

\* The word of an update that starts a worker thread when it is dispatched.
Spawns(text) ==
    HasWord(text) /\ Dispatch(Lower(FirstWord(text))) \in {"run", "refresh"}

\* The messages of chat 42 that are commands.
CommandMessages ==
    {[text |-> text, chat |-> "42"] : text \in {MsgRunNow, MsgStatus, MsgRefresh}}

\* A message arrives in the bot's queue at Telegram.  A command that starts a
\* worker is sent only while a thread of the model is left for it: the threads
\* that run, the commands not yet handled and the handler that is about to
\* start one are counted.
Send(messages) ==
    /\ Len(tg.inbox) < MaxUpdates
    /\ \E message \in messages :
          /\ Spawns(message.text) =>
                Cardinality({t \in Threads : pc[t] \notin Quiescent})
                  + Cardinality({i \in DOMAIN tg.inbox :
                                    /\ i >= (IF poll.offset = None THEN 1 ELSE poll.offset)
                                    /\ Spawns(tg.inbox[i].text)})
                  + (IF poll.handler \in {"run", "refresh"} THEN 1 ELSE 0)
                  < Cardinality(Threads)
          /\ tg' = [tg EXCEPT !.inbox = Append(@, message)]
    /\ UNCHANGED <<engineVars, scoreVars, matchVars, predVars, strengthVars, summaryVars, TELEGRAM_CHAT, poll>>

\* Lines 405-406, 335-341: run_scheduler has started the polling thread;
\* without a token it returns.
StartPolling ==
    /\ worker_state.started_at # None
    /\ poll.stage = "off"
    /\ \E token_set \in BOOLEAN :
          poll' = [poll EXCEPT !.stage = IF token_set THEN "init" ELSE "disabled"]
    /\ UNCHANGED <<engineVars, scoreVars, matchVars, predVars, strengthVars, summaryVars, TELEGRAM_CHAT, tg>>

\* Lines 343-352: the old messages are dropped: getUpdates with offset -1
\* returns the last update and forgets the ones before it.
Drain ==
    /\ poll.stage = "init"
    /\ \/ /\ poll' = [poll EXCEPT !.stage = "get"]
          /\ UNCHANGED tg
       \/ /\ poll' = [poll EXCEPT !.stage = "get",
                                  !.offset = IF Len(tg.inbox) > tg.forgotten
                                             THEN Len(tg.inbox) + 1 ELSE None]
          /\ tg' = [tg EXCEPT !.forgotten = IF Len(tg.inbox) > tg.forgotten
                                            THEN Len(tg.inbox) - 1 ELSE @]
    /\ UNCHANGED <<engineVars, scoreVars, matchVars, predVars, strengthVars, summaryVars, TELEGRAM_CHAT>>

\* Lines 355-361 and 386-390: one getUpdates.  A timeout or an error leaves
\* the loop as it is; an answer is the updates from the offset on, and the
\* updates before the offset are forgotten by the queue.
GetUpdates ==
    /\ poll.stage = "get"
    /\ \/ UNCHANGED <<poll, tg>>
       \/ LET first == IF poll.offset # None THEN Max2(poll.offset, tg.forgotten + 1)
                       ELSE tg.forgotten + 1
              updates == UpdatesFrom(tg.inbox, first)
          IN  /\ poll' = [poll EXCEPT !.updates = updates,
                                      !.stage = IF updates = <<>> THEN "get" ELSE "handle"]
              /\ tg' = [tg EXCEPT !.forgotten = IF poll.offset # None
                                                THEN Max2(@, poll.offset - 1) ELSE @]
    /\ UNCHANGED <<engineVars, scoreVars, matchVars, predVars, strengthVars, summaryVars, TELEGRAM_CHAT>>

\* A plausible slip in the loop: the offset is the update's own id.
NextOffsetSame(update) == update.update_id

\* offset = update["update_id"] + 1 (line 364), before the update is read.
NextOffset(update) == update.update_id + 1

\* What the loop notes of an update it went through.
Handled(update, word, handler, outcome) ==
    [update_id |-> update.update_id, from |-> update.chat, word |-> word,
     handler |-> handler, outcome |-> outcome]

\* Lines 363-379: one update of the batch, up to the handler's call for
\* Telegram.  The offset moves first; a text without a word raises at line 365
\* and ends the batch (386-388); an update of another chat is passed over; a
\* word that is dispatched enters its handler, which reads what it reports
\* (the flag for status, the database for bets and stats) and posts it.
HandleUpdate ==
    /\ poll.stage = "handle"
    /\ LET update == Head(poll.updates)
           rest   == Tail(poll.updates)
           P1     == [poll EXCEPT !.offset = NextOffset(update)]
           Go(P)  == [P EXCEPT !.updates = rest, !.stage = NextStage(rest)]
           Enter(P, handler) ==
                     [P EXCEPT !.updates = rest, !.stage = "reply", !.handler = handler]
       IN  IF ~HasWord(update.text)
           THEN poll' = [P1 EXCEPT !.updates = <<>>, !.stage = "get",
                                   !.handled = Append(@, Handled(update, <<>>, "none",
                                                                 "parse_error"))]
           ELSE LET text == Lower(FirstWord(update.text))
                IN  IF GateRejects(TELEGRAM_CHAT, update.chat)
                    THEN poll' = Go([P1 EXCEPT !.handled =
                                   Append(@, Handled(update, text, "none", "unauthorized"))])
                    ELSE LET handler == Dispatch(text)
                         IN  IF handler = "none"
                             THEN poll' = Go([P1 EXCEPT !.handled =
                                     Append(@, Handled(update, text, "none", "ignored"))])
                             ELSE \E outcome \in HandlerOutcomes(handler) :
                                     poll' = Enter([P1 EXCEPT !.handled =
                                        Append(@, Handled(update, text, handler,
                                           IF handler = "status" /\ worker_state.running
                                           THEN "running" ELSE outcome))], handler)
    /\ UNCHANGED <<engineVars, scoreVars, matchVars, predVars, strengthVars, summaryVars, TELEGRAM_CHAT, tg>>

\* The end of a handler (lines 379-384).  Its post has returned, sent or not
\* (telegram_bot.py 32-38: ten seconds at most, every error caught); the post
\* of a handler that raised is the one of line 382.  handle_run and
\* handle_refresh then start a daemon thread on their function (303-316),
\* and the loop goes on.
Reply ==
    /\ poll.stage = "reply"
    /\ IF poll.handler \in {"run", "refresh"}
       THEN /\ \E t \in Threads : pc[t] \in Quiescent
            /\ LET t == CHOOSE t \in Threads : pc[t] \in Quiescent
               IN  /\ poll' = [poll EXCEPT !.stage = AfterStart(poll.updates),
                                           !.handler = "none", !.spawned = t]
                   /\ Keep(t, [NoLocal EXCEPT !.fn = poll.handler, !.li = 1])
                   /\ Goto(t, IF poll.handler = "run" THEN "guard" ELSE "r_league")
                   /\ invocations' = invocations + 1
                   /\ UNCHANGED <<worker_state, db_team_stats, db_bets, now>>
       ELSE /\ poll' = [poll EXCEPT !.stage = NextStage(poll.updates),
                                    !.handler = "none"]
            /\ UNCHANGED engineVars
    /\ UNCHANGED <<scoreVars, matchVars, predVars, strengthVars, summaryVars, TELEGRAM_CHAT, tg>>

\* The steps of a worker thread that is started.
WorkerStep(t, env) ==
    \/ Guard(t)
    \/ Reject(t)
    \/ SetRunning(t)
    \/ FetchFixtures(t, env)
    \/ LoadStats(t, env)
    \/ AutoRefresh(t, env)
    \/ AutoRefreshSave(t, env)
    \/ Reload(t, env)
    \/ FetchOdds(t, env)
    \/ Fixture(t, env)
    \/ SaveBet(t, env)
    \/ Finish(t)
    \/ Summary(t)
    \/ RefreshLeague(t, env)
    \/ RefreshSave(t, env)
    \/ RefreshFinish(t)

\* The feeds answer in one way and nothing fails: the threads are started by
\* the commands only.
PollEnv ==
    [threads       |-> {},
     overlap       |-> TRUE,
     fixtureFeeds  |-> {<<Fx1>>},
     standings     |-> {<<1, 2>>},
     oddsFeeds     |-> {<<Ev1>>},
     predictions   |-> {PredStrong},
     failures      |-> {}]

(***************************************************************************)
(* SpecPoll: the polling loop, the commands and the workers they start     *)
(***************************************************************************)
InitPoll ==
    /\ worker_state = [started_at |-> None, last_run |-> None, last_refresh |-> None,
                       bets_today |-> 0, running |-> FALSE]
    /\ pc = [t \in Threads |-> "idle"]
    /\ local = [t \in Threads |-> NoLocal]
    /\ db_team_stats = [l \in Range(LEAGUES) |-> {}]
    /\ db_bets = 0
    /\ now = 1
    /\ invocations = 0
    /\ PureIdle
    /\ TELEGRAM_CHAT \in {"", "42"}
    /\ tg = [inbox |-> <<>>, forgotten |-> 0]
    /\ poll = [stage |-> "off", offset |-> None, updates |-> <<>>,
               handled |-> <<>>, handler |-> "none", spawned |-> "none"]

NextPoll ==
    \/ RunScheduler
    \/ Send(Messages)
    \/ StartPolling
    \/ Drain
    \/ GetUpdates
    \/ HandleUpdate
    \/ Reply
    \/ \E t \in Threads : WorkerStep(t, PollEnv)

SpecPoll == InitPoll /\ [][NextPoll]_vars

\* The same loop when the messages are commands of the authorized chat only.
InitCommands == InitPoll /\ TELEGRAM_CHAT = "42"

\* No run command waits in the queue or is in its handler, and no thread of
\* run_value_bet_engine is between its start and the flag of line 91.
NoRunAtTheGuard ==
    /\ \A i \in DOMAIN tg.inbox :
          i >= (IF poll.offset = None THEN 1 ELSE poll.offset) =>
              Dispatch(Lower(FirstWord(tg.inbox[i].text))) # "run"
    /\ poll.handler # "run"
    /\ \A t \in Threads : local[t].fn = "run" => pc[t] \notin {"guard", "set"}

\* The commands arrive with their runs apart: run is sent again only when the
\* run before it has set the flag or is over, so that the second is rejected
\* or follows the first.  Two runs that pass the guard together are the
\* matter of SpecOverlap.
SendCommand ==
    /\ Send(CommandMessages)
    /\ Dispatch(Lower(FirstWord(tg'.inbox[Len(tg'.inbox)].text))) = "run" => NoRunAtTheGuard

NextCommands ==
    \/ RunScheduler
    \/ SendCommand
    \/ StartPolling
    \/ Drain
    \/ GetUpdates
    \/ HandleUpdate
    \/ Reply
    \/ \E t \in Threads : WorkerStep(t, PollEnv)

\* The polling thread is a thread of the process and is always scheduled: a
\* step of it that can be taken is taken.  No such thing is assumed of the
\* workers, so that nothing follows from their progress.
SpecCommands ==
    InitCommands /\ [][NextCommands]_vars /\ WF_vars(HandleUpdate) /\ WF_vars(Reply)

(***************************************************************************)
(* SpecScore: find_value_bets on its own                                   *)
(***************************************************************************)
InitScore ==
    /\ EngineIdle
    /\ rc_in = None /\ rc_out = None
    /\ pr_in = None /\ pr_out = None
    /\ cs_in = None /\ cs_out = None
    /\ ds_in = None /\ ds_out = None
    /\ fv_in \in [predictions : ScorePredictions, odds : OddsMappings(MaxBookmakers),
                  value_threshold : ScoreThresholds, min_prob : ScoreMinProbs]
    /\ fv_out = [done |-> FALSE, bets |-> <<>>]

Score ==
    /\ ~fv_out.done
    /\ fv_out' = [done |-> TRUE,
                  bets |-> find_value_bets(fv_in.predictions, fv_in.odds,
                                           fv_in.value_threshold, fv_in.min_prob)]
    /\ UNCHANGED <<engineVars, matchVars, predVars, strengthVars, summaryVars, pollVars, fv_in>>

NextScore == Score

SpecScore == InitScore /\ [][NextScore]_vars

(***************************************************************************)
(* model.py: the Poisson grid (16-68)                                      *)
(***************************************************************************)
RECURSIVE factorial(_)
factorial(k) == IF k = 0 THEN 1 ELSE k * factorial(k - 1)

\* (lam ** k * math.exp(-lam)) / factorial(k), expneg being math.exp(-lam).
PoissonTerm(lam, k, expneg) ==
    FloatDiv(FloatMul(FloatPow(lam, k), expneg), FloatOf(factorial(k), 0))

\* model.py 20-24: P(X = k).
poisson_prob(lam, k) ==
    IF ~FloatGt(lam, Float0) THEN (IF k = 0 THEN One ELSE Float0)
    ELSE PoissonTerm(lam, k, FloatExpNeg(lam))

MAX_GOALS == 8          \* max_goals: int = 8 (model.py 27)

\* The function f, its values computed once and not at every application.
Evaluated(f) == f @@ <<>>

PoissonTerms(lam, max_goals, expneg) ==
    Evaluated([k \in 0..max_goals |-> PoissonTerm(lam, k, expneg)])

\* poisson_prob(lam, 0), ..., poisson_prob(lam, max_goals).
PoissonProbs(lam, max_goals) ==
    IF ~FloatGt(lam, Float0) THEN [k \in 0..max_goals |-> IF k = 0 THEN One ELSE Float0]
    ELSE PoissonTerms(lam, max_goals, FloatExpNeg(lam))

\* The products of line 35 for the probabilities of the two sides.
ScoreMatrix(home, away, max_goals) ==
    Evaluated([i \in 0..max_goals |->
                 Evaluated([j \in 0..max_goals |-> FloatMul(home[i], away[j])])])

\* model.py 27-38: matrix[i][j] = P(home = i, away = j), i, j in 0..max_goals.
build_score_matrix(lambda_home, lambda_away, max_goals) ==
    ScoreMatrix(PoissonProbs(lambda_home, max_goals),
                PoissonProbs(lambda_away, max_goals), max_goals)

\* The cells (i, j) of the grid.
Cells(matrix) == (DOMAIN matrix) \X (DOMAIN matrix)

\* sum() over the cells from the k-th on, row after row, acc being the sum of
\* the cells before: the additions are made one after the other in the order
\* of the generator, each rounded (sum() of CPython 3.11; from 3.12 on it
\* compensates the rounding errors).  acc is never beyond 2^2000: the test
\* has it computed at every step.
RECURSIVE SumFrom(_, _, _, _, _)
SumFrom(matrix, cells, n, k, acc) ==
    IF k >= n * n \/ acc.e > 2000 THEN acc
    ELSE SumFrom(matrix, cells, n, k + 1,
                 IF <<k \div n, k % n>> \in cells
                 THEN FloatAdd(acc, matrix[k \div n][k % n]) ELSE acc)

\* sum(matrix[i][j] for i ... for j ... if (i, j) in cells).
SumCells(matrix, cells) == SumFrom(matrix, cells, Cardinality(DOMAIN matrix), 0, Float0)

\* model.py 41-46.
calc_1x2(matrix) ==
    [home_win |-> SumCells(matrix, {c \in Cells(matrix) : c[1] > c[2]}),
     draw     |-> SumCells(matrix, {c \in Cells(matrix) : c[1] = c[2]}),
     away_win |-> SumCells(matrix, {c \in Cells(matrix) : c[1] < c[2]})]

OverUnder(over) == [over_2_5 |-> over, under_2_5 |-> FloatSub(One, over)]

\* model.py 49-58: (i + j) > 2.5, and under = 1 - over.
calc_over_under(matrix) ==
    OverUnder(SumCells(matrix, {c \in Cells(matrix) : 2 * (c[1] + c[2]) > 5}))

Btts(btts) == [btts_yes |-> btts, btts_no |-> FloatSub(One, btts)]

\* model.py 61-68.
calc_btts(matrix) ==
    Btts(SumCells(matrix, {c \in Cells(matrix) : c[1] >= 1 /\ c[2] >= 1}))

(***************************************************************************)
(* model.py: predict_match (112-146), the expected goals                   *)
(***************************************************************************)
LambdaMin == FloatOf(3, 1)      \* 0.3
LambdaMax == FloatOf(6, 0)      \* 6.0

\* A plausible slip in the clamp: the lower limit is missing.
ClampLambdaHighOnly(x) == FloatMin(x, LambdaMax)

\* max(0.3, min(lambda, 6.0)) (model.py 128-129).
ClampLambda(x) == FloatMax(LambdaMin, FloatMin(x, LambdaMax))

\* A plausible slip in line 124: def_away is read from the home team.
LambdaHomeOwnDefence(h, a, league_avg_home) ==
    FloatMul(FloatMul(h.att_home, h.def_away), league_avg_home)

\* model.py 124-125: the expected goals before the clamp, each a product of
\* two multiplications from left to right.
LambdaHome(h, a, league_avg_home) ==
    FloatMul(FloatMul(h.att_home, a.def_away), league_avg_home)
LambdaAway(h, a, league_avg_away) ==
    FloatMul(FloatMul(a.att_away, h.def_home), league_avg_away)

\* A plausible slip in the test of line 121: a team that meets itself has no
\* prediction.
NoStrengthsOrSameTeam(home_team_id, away_team_id, strengths) ==
    \/ home_team_id \notin DOMAIN strengths
    \/ away_team_id \notin DOMAIN strengths
    \/ home_team_id = away_team_id

\* `if not h or not a:` (model.py 118-121): strengths.get gives None for a
\* team without an entry; an entry is a dict of five keys (90-96), never
\* empty.
NoStrengths(home_team_id, away_team_id, strengths) ==
    \/ home_team_id \notin DOMAIN strengths
    \/ away_team_id \notin DOMAIN strengths

\* The None of line 122, as a record of the shape of a prediction.
NoPrediction ==
    [none |-> TRUE, lambda_home |-> 0, lambda_away |-> 0, home_win |-> 0, draw |-> 0,
     away_win |-> 0, over_2_5 |-> 0, under_2_5 |-> 0, btts_yes |-> 0, btts_no |-> 0]

\* model.py 136-146: the dict returned, the lambdas in thousandths
\* (round(x, 3)) and the probabilities in units of 10^-4 (round(x, 4)).
Prediction(lambda_home, lambda_away, probs_1x2, probs_ou, probs_btts) ==
    [none |-> FALSE,
     lambda_home |-> FloatRoundTo(lambda_home, 3),
     lambda_away |-> FloatRoundTo(lambda_away, 3),
     home_win  |-> FloatRoundTo(probs_1x2.home_win, 4),
     draw      |-> FloatRoundTo(probs_1x2.draw, 4),
     away_win  |-> FloatRoundTo(probs_1x2.away_win, 4),
     over_2_5  |-> FloatRoundTo(probs_ou.over_2_5, 4),
     under_2_5 |-> FloatRoundTo(probs_ou.under_2_5, 4),
     btts_yes  |-> FloatRoundTo(probs_btts.btts_yes, 4),
     btts_no   |-> FloatRoundTo(probs_btts.btts_no, 4)]

\* model.py 132-134.
PredictionOfMatrix(lambda_home, lambda_away, matrix) ==
    Prediction(lambda_home, lambda_away,
               calc_1x2(matrix), calc_over_under(matrix), calc_btts(matrix))

\* model.py 131-146: the grid is built from the clamped, unrounded lambdas.
PredictionOfLambdas(lambda_home, lambda_away) ==
    PredictionOfMatrix(lambda_home, lambda_away,
                       build_score_matrix(lambda_home, lambda_away, MAX_GOALS))

\* model.py 118-146.
predict_match(home_team_id, away_team_id, strengths, league_avg_home, league_avg_away) ==
    IF NoStrengths(home_team_id, away_team_id, strengths)
    THEN NoPrediction
    ELSE PredictionOfLambdas(
             ClampLambda(LambdaHome(strengths[home_team_id], strengths[away_team_id],
                                    league_avg_home)),
             ClampLambda(LambdaAway(strengths[home_team_id], strengths[away_team_id],
                                    league_avg_away)))

\* The grid of line 131 for the same arguments, a local of predict_match.
ScoreMatrixOf(home_team_id, away_team_id, strengths, league_avg_home, league_avg_away) ==
    build_score_matrix(
        ClampLambda(LambdaHome(strengths[home_team_id], strengths[away_team_id],
                               league_avg_home)),
        ClampLambda(LambdaAway(strengths[home_team_id], strengths[away_team_id],
                               league_avg_away)), MAX_GOALS)

\* A row of the strength mapping (model.py 90-96) from its four ratios in
\* hundredths.
StrengthRow(att_home, def_home, att_away, def_away) ==
    [att_home |-> FloatOf(att_home, 2), def_home |-> FloatOf(def_home, 2),
     att_away |-> FloatOf(att_away, 2), def_away |-> FloatOf(def_away, 2)]

\* Rows of the strength mapping: no goals at all, a team with att_home = 100,
\* and the two teams TeamA and TeamB for which the home lambda is 1.512 and
\* the away lambda 1.21 when the league averages are 1.4 and 1.1.
TeamA == StrengthRow(120, 110, 101, 150)
TeamB == StrengthRow(137, 250, 100, 90)

StrengthRows ==
    {StrengthRow(0, 0, 0, 0), StrengthRow(10000, 250, 300, 250), TeamA, TeamB}

\* The home and the away average of a league.
LeagueAverages ==
    {<<FloatOf(140, 2), FloatOf(110, 2)>>, <<FloatOf(110, 2), FloatOf(150, 2)>>,
     <<FloatOf(300, 2), FloatOf(300, 2)>>, <<FloatOf(140, 2), FloatOf(0, 2)>>}

PredictTeamIds == {1, 2, 3}

\* The arguments of a call.
PredictInput(home_team_id, away_team_id, strengths, league_averages) ==
    [home_team_id |-> home_team_id, away_team_id |-> away_team_id, strengths |-> strengths,
     league_avg_home |-> league_averages[1], league_avg_away |-> league_averages[2]]

PredictInputs ==
    {PredictInput(home_team_id, away_team_id, strengths, league_averages) :
        home_team_id \in PredictTeamIds, away_team_id \in PredictTeamIds,
        strengths \in [{1, 2} -> StrengthRows], league_averages \in LeagueAverages}

(***************************************************************************)
(* SpecPredict: predict_match on its own                                   *)
(***************************************************************************)
InitPredict ==
    /\ EngineIdle
    /\ fv_in = None /\ fv_out = None
    /\ rc_in = None /\ rc_out = None
    /\ cs_in = None /\ cs_out = None
    /\ ds_in = None /\ ds_out = None
    /\ pr_in \in PredictInputs
    /\ pr_out = [done |-> FALSE, prediction |-> NoPrediction]

Predict ==
    /\ ~pr_out.done
    /\ pr_out' = [done |-> TRUE,
                  prediction |-> predict_match(pr_in.home_team_id, pr_in.away_team_id,
                                               pr_in.strengths, pr_in.league_avg_home,
                                               pr_in.league_avg_away)]
    /\ UNCHANGED <<engineVars, scoreVars, matchVars, strengthVars, summaryVars, pollVars, pr_in>>

NextPredict == Predict

SpecPredict == InitPredict /\ [][NextPredict]_vars

(***************************************************************************)
(* model.py: calc_league_averages (100-109) and                            *)
(* calc_attack_defense_strength (71-97)                                    *)
(***************************************************************************)
\* The ZeroDivisionError of a division by zero, as a value that is no float
\* (the exponent of a float of significand 0 is 0).
ZeroDivision == [neg |-> FALSE, m |-> <<>>, e |-> 1]

\* n / d for two ints that are not negative: the binary64 nearest to the
\* quotient.
IntDiv(n, d) == IF d = 0 THEN ZeroDivision ELSE FloatDiv(FloatOf(n, 0), FloatOf(d, 0))

\* A plausible slip: the floor of the game counts is missing.
GamesFloorMissing(games) == games

\* max(games, 1) (model.py 82-83, 107-108).
GamesFloor(games) == Max2(games, 1)

\* sum(s[field] for s in team_stats.values()) over the teams of ids.
RECURSIVE Total(_, _, _)
Total(team_stats, field, ids) ==
    IF ids = {} THEN 0
    ELSE LET tid == CHOOSE tid \in ids : TRUE
         IN  team_stats[tid][field] + Total(team_stats, field, ids \ {tid})

\* model.py 100-109.
calc_league_averages(team_stats) ==
    [avg_home |-> IntDiv(Total(team_stats, "home_goals_scored", DOMAIN team_stats),
                         GamesFloor(Total(team_stats, "home_games", DOMAIN team_stats))),
     avg_away |-> IntDiv(Total(team_stats, "away_goals_scored", DOMAIN team_stats),
                         GamesFloor(Total(team_stats, "away_games", DOMAIN team_stats)))]

\* max(league_avg, 0.01) (model.py 91-94).
AverageFloor(league_avg) == FloatMax(league_avg, FloatOf(1, 2))

\* (goals / games) / max(league_avg, 0.01), as lines 85-94 divide: the
\* average per game first, the ratio to the league's floored average next,
\* neither rounded.
Strength(goals, games, league_avg) ==
    IF games = 0 \/ league_avg = ZeroDivision THEN ZeroDivision
    ELSE FloatDiv(IntDiv(goals, games), AverageFloor(league_avg))

\* The entry of lines 90-96 for the row s of a team.
StrengthsOf(s, h_games, a_games, league_avg_home, league_avg_away) ==
    [att_home |-> Strength(s.home_goals_scored, h_games, league_avg_home),
     def_home |-> Strength(s.home_goals_conceded, h_games, league_avg_away),
     att_away |-> Strength(s.away_goals_scored, a_games, league_avg_away),
     def_away |-> Strength(s.away_goals_conceded, a_games, league_avg_home)]

\* model.py 71-97.
calc_attack_defense_strength(team_stats, league_avg_home, league_avg_away) ==
    [tid \in DOMAIN team_stats |->
        StrengthsOf(team_stats[tid], GamesFloor(team_stats[tid].home_games),
                    GamesFloor(team_stats[tid].away_games),
                    league_avg_home, league_avg_away)]

\* A row of team_stats as get_team_standings fills it (api_clients.py
\* 108-121).
StatRow(home_games, away_games, home_goals_scored, home_goals_conceded,
        away_goals_scored, away_goals_conceded) ==
    [home_games |-> home_games, away_games |-> away_games,
     home_goals_scored |-> home_goals_scored, home_goals_conceded |-> home_goals_conceded,
     away_goals_scored |-> away_goals_scored, away_goals_conceded |-> away_goals_conceded]

\* A team that has not played, one that has played at home only, two usual
\* teams, one whose games were all goalless, and one whose row has home goals
\* but no home games: the goals and the games are read from different fields
\* of the feed (api_clients.py 115-120), and nothing ties them together.
StatRows ==
    {StatRow(0, 0, 0, 0, 0, 0), StatRow(2, 0, 3, 1, 0, 0), StatRow(10, 9, 15, 8, 12, 12),
     StatRow(17, 17, 45, 20, 17, 24), StatRow(3, 3, 0, 0, 0, 0),
     StatRow(0, 4, 3, 1, 5, 6)}

StatTeamIds == {1, 2, 3}

(***************************************************************************)
(* SpecStrength: the averages and the strengths on their own               *)
(***************************************************************************)
InitStrength ==
    /\ EngineIdle
    /\ fv_in = None /\ fv_out = None
    /\ rc_in = None /\ rc_out = None
    /\ pr_in = None /\ pr_out = None
    /\ ds_in = None /\ ds_out = None
    /\ cs_in \in UNION {[ids -> StatRows] : ids \in SUBSET StatTeamIds}
    /\ cs_out = [stage |-> "input", averages |-> <<>>, strengths |-> <<>>]

\* scheduler.py 133.
Averages ==
    /\ cs_out.stage = "input"
    /\ cs_out' = [cs_out EXCEPT !.stage = "averaged",
                                !.averages = calc_league_averages(cs_in)]
    /\ UNCHANGED <<engineVars, scoreVars, matchVars, predVars, summaryVars, pollVars, cs_in>>

\* scheduler.py 134.
Strengths ==
    /\ cs_out.stage = "averaged"
    /\ cs_out' = [cs_out EXCEPT !.stage = "done",
                                !.strengths = calc_attack_defense_strength(
                                                  cs_in, cs_out.averages.avg_home,
                                                  cs_out.averages.avg_away)]
    /\ UNCHANGED <<engineVars, scoreVars, matchVars, predVars, summaryVars, pollVars, cs_in>>

NextStrength == Averages \/ Strengths

SpecStrength == InitStrength /\ [][NextStrength]_vars

(***************************************************************************)
(* telegram_bot.py: send_daily_summary (57-86)                             *)
(***************************************************************************)
TOP_BETS_DEFAULT == 5    \* int(os.getenv("TOP_BETS_COUNT", 5))

\* top_bets = value_bets[:top_count] (line 67): a slice, whose negative stop
\* counts from the end of the list.
TopBets(value_bets, top_count) ==
    IF top_count >= 0
    THEN SubSeq(value_bets, 1, Min2(top_count, Len(value_bets)))
    ELSE SubSeq(value_bets, 1, Max2(Len(value_bets) + top_count, 0))

\* The messages send_daily_summary sends for a batch (lines 62-86): one
\* message when the batch is empty; else a header, one message per top bet
\* and a footer.
send_daily_summary(value_bets, top_count) ==
    IF value_bets = <<>> THEN <<[kind |-> "empty"]>>
    ELSE LET top_bets == TopBets(value_bets, top_count)
         IN  <<[kind |-> "header", count |-> Len(top_bets)]>>
             \o [i \in DOMAIN top_bets |->
                   [kind |-> "bet", bet |-> top_bets[i][1], match_info |-> top_bets[i][2]]]
             \o <<[kind |-> "footer"]>>

MaxFixtures == 6

\* The fixtures of a run that have bets, as dates.
SummaryDates == <<"2024-05-01", "2024-05-02", "2024-05-03", "2024-05-04",
                  "2024-05-05", "2024-05-06", "2024-05-07">>

\* all_value_bets as lines 151-188 build it when every save returns: for each
\* fixture in turn, the fixture's value bets in the order of find_value_bets,
\* each with the fixture's match_info.
RECURSIVE Batch(_)
Batch(fixture_odds) ==
    IF fixture_odds = <<>> THEN <<>>
    ELSE LET n          == Len(fixture_odds)
             value_bets == EngineValueBets(PredStrong, fixture_odds[n])
             match_info == MatchInfo([date |-> SummaryDates[n], home_team_name |-> Paris,
                                      away_team_name |-> Lyon], LEAGUE_NAMES(LEAGUES[1]))
         IN  Batch(SubSeq(fixture_odds, 1, n - 1))
             \o [i \in DOMAIN value_bets |-> <<value_bets[i], match_info>>]

\* TOP_BETS_COUNT as the environment may set it, and its default.
TopCounts == {-1, 2, TOP_BETS_DEFAULT}

(***************************************************************************)
(* SpecSummary: send_daily_summary on its own                              *)
(***************************************************************************)
InitSummary ==
    /\ EngineIdle
    /\ fv_in = None /\ fv_out = None
    /\ rc_in = None /\ rc_out = None
    /\ pr_in = None /\ pr_out = None
    /\ cs_in = None /\ cs_out = None
    /\ ds_in \in [fixture_odds : SeqUpTo({OddsA, OddsB, OddsC}, MaxFixtures),
                  top_count : TopCounts]
    /\ ds_out = [stage |-> "running", value_bets |-> <<>>, messages |-> <<>>]

\* Lines 174-186 for the next bet of the run: save_bet commits its row, and
\* the bet joins all_value_bets with the match_info of its fixture.
Collect ==
    /\ ds_out.stage = "running"
    /\ Len(ds_out.value_bets) < Len(Batch(ds_in.fixture_odds))
    /\ ds_out' = [ds_out EXCEPT
                    !.value_bets = Append(@, Batch(ds_in.fixture_odds)[Len(@) + 1])]
    /\ db_bets' = db_bets + 1
    /\ UNCHANGED <<scoreVars, matchVars, predVars, strengthVars, pollVars, ds_in,
                   worker_state, pc, local, db_team_stats, now, invocations>>

\* The messages posted so far and the next one of `all`.
Posted(out, all) ==
    [out EXCEPT !.messages = Append(@, all[Len(@) + 1]),
                !.stage = IF Len(out.messages) + 1 = Len(all) THEN "sent" ELSE @]

\* Line 194, after the last fixture: the next send_message of
\* send_daily_summary posts its message (telegram_bot.py 29).
SendSummary ==
    /\ ds_out.stage = "running"
    /\ Len(ds_out.value_bets) = Len(Batch(ds_in.fixture_odds))
    /\ ds_out' = Posted(ds_out, send_daily_summary(ds_out.value_bets, ds_in.top_count))
    /\ UNCHANGED <<engineVars, scoreVars, matchVars, predVars, strengthVars, pollVars, ds_in>>

NextSummary == Collect \/ SendSummary

SpecSummary == InitSummary /\ [][NextSummary]_vars

(***************************************************************************)
(* SpecMatch: the odds index and the reconciliation on their own           *)
(***************************************************************************)
InitMatch ==
    /\ EngineIdle
    /\ fv_in = None /\ fv_out = None
    /\ pr_in = None /\ pr_out = None
    /\ cs_in = None /\ cs_out = None
    /\ ds_in = None /\ ds_out = None
    /\ rc_in \in [odds_events : SeqUpTo(MatchEvents, MaxEvents), fixture : MatchFixtures]
    /\ rc_out = [stage |-> "input", odds_lookup |-> <<>>,
                 found |-> [odds |-> <<>>, via |-> "none", at |-> 0]]

\* Lines 145-148.
IndexOdds ==
    /\ rc_out.stage = "input"
    /\ rc_out' = [rc_out EXCEPT !.stage = "indexed",
                                !.odds_lookup = BuildIndex(rc_in.odds_events)]
    /\ UNCHANGED <<engineVars, scoreVars, predVars, strengthVars, summaryVars, pollVars, rc_in>>

\* Lines 159-165.
Reconcile ==
    /\ rc_out.stage = "indexed"
    /\ rc_out' = [rc_out EXCEPT !.stage = "done",
                                !.found = ReconcileOdds(rc_out.odds_lookup,
                                                        rc_in.fixture.home_team_name,
                                                        rc_in.fixture.away_team_name)]
    /\ UNCHANGED <<engineVars, scoreVars, predVars, strengthVars, summaryVars, pollVars, rc_in>>

NextMatch == IndexOdds \/ Reconcile

SpecMatch == InitMatch /\ [][NextMatch]_vars


(***************************************************************************)
(* Claims                                                                  *)
(***************************************************************************)
\* Positions inside the league loop of run_value_bet_engine (lines 103-188).
PipelineBody == {"fixtures", "stats", "refresh", "refresh_save", "reload", "odds",
                 "fixture", "save"}

\* C1 (SpecOverlap): at no time are two invocations of run_value_bet_engine
\* both past the guard and inside the per-league pipeline body.
C1_NoOverlappingRuns ==
    \A t, u \in Threads :
        (pc[t] \in PipelineBody /\ pc[u] \in PipelineBody) => t = u

\* C2 (SpecOverlap): an invocation that finds worker_state.running set is
\* rejected: its one effect is the 'already running' notification; it fetches
\* nothing, persists nothing, and leaves worker_state as it is.
C2_RejectedRunDoesNothing ==
    [][\A t \in Threads :
         /\ (pc[t] = "guard" /\ worker_state.running /\ pc'[t] # "guard")
              => /\ pc'[t] = "reject"
                 /\ local'[t] = local[t]
                 /\ worker_state' = worker_state
         /\ (pc[t] = "reject" /\ pc'[t] # "reject")
              => /\ pc'[t] = "rejected"
                 /\ local'[t] = [local[t] EXCEPT
                        !.log = <<Call("send_message", 0, "already running")>>]
                 /\ worker_state' = worker_state
                 /\ db_bets' = db_bets
                 /\ db_team_stats' = db_team_stats
                 /\ invocations' = invocations]_vars

\* C2 witness: a call was rejected while another run was inside the pipeline.
C2_Witness ==
    \E t, u \in Threads :
        /\ pc[t] = "rejected"
        /\ local[t].log = <<Call("send_message", 0, "already running")>>
        /\ pc[u] \in PipelineBody

\* C3 (Spec): a run that passed the guard reaches its end, where running is
\* reset: the flag is never left set with no run in progress.
C3_RunReachesItsEnd ==
    /\ \A t \in Threads : pc[t] # "raised"
    /\ worker_state.running => \E t \in Threads : pc[t] \in InBody

\* The leagues that follow league_id in LEAGUES.
LeaguesAfter(league_id) ==
    {LEAGUES[j] : j \in {j \in DOMAIN LEAGUES :
                           \E i \in DOMAIN LEAGUES : LEAGUES[i] = league_id /\ i < j}}

\* C4 (Spec): when a run is over, every error a stage raised for a league
\* (fixture fetch, strength load, auto-refresh, odds fetch) is in the run's
\* errors under that league's name, and every later league was processed.
C4_StageErrorsAreCaught ==
    \A t \in Threads :
        (local[t].fn = "run" /\ pc[t] \in {"done", "raised"}) =>
            \A i \in DOMAIN local[t].log :
                LET c == local[t].log[i]
                IN  (c.outcome = "raise" /\ c.call \in {"get_fixtures", "get_team_stats",
                                 "get_team_standings", "save_team_stats", "get_odds"}) =>
                      /\ \E k \in DOMAIN local[t].errors :
                            local[t].errors[k].league = LEAGUE_NAMES(c.league)
                      /\ \A l \in LeaguesAfter(c.league) :
                            \E j \in DOMAIN local[t].log :
                               /\ local[t].log[j].call = "get_fixtures"
                               /\ local[t].log[j].league = l

\* C5 (Spec): a league whose stats are still missing after the auto-refresh and
\* the reload is skipped: the run is never past get_odds for a league without
\* stats.
C5_NoOddsWithoutStats ==
    \A t \in Threads :
        pc[t] \in {"fixture", "save"} => local[t].team_stats # {}

\* C6 (SpecScore): every candidate find_value_bets returns has its probability
\* field >= min_prob and its value field > value_threshold.
C6_FieldsPassTheThresholds ==
    fv_out.done =>
        \A i \in DOMAIN fv_out.bets :
            /\ fv_out.bets[i].probability * 10 >= fv_in.min_prob
            /\ fv_out.bets[i].value * 1000 > fv_in.value_threshold

\* The key of the fixture handed to the reconciliation.
FixtureKey == <<Lower(rc_in.fixture.home_team_name), Lower(rc_in.fixture.away_team_name)>>

\* C7 (SpecMatch): whenever the index holds the fixture's exact key, the odds
\* used for the fixture are those of that entry.
C7_ExactKeyWins ==
    rc_out.stage = "done" =>
        \A i \in DOMAIN rc_out.odds_lookup :
            rc_out.odds_lookup[i].key = FixtureKey =>
                rc_out.found.odds = rc_out.odds_lookup[i].odds

\* a occurs in b, said position by position.
OccursIn(a, b) ==
    \E off \in 0..Len(b) :
        /\ off + Len(a) <= Len(b)
        /\ \A i \in 1..Len(a) : b[off + i] = a[i]

SubstringRelated(a, b) == OccursIn(a, b) \/ OccursIn(b, a)

\* C8 (SpecMatch): the entry the fuzzy scan accepts is substring-related to the
\* fixture on the home side and on the away side.
C8_FuzzyNeedsBothSides ==
    (rc_out.stage = "done" /\ rc_out.found.via = "fuzzy") =>
        /\ SubstringRelated(rc_out.odds_lookup[rc_out.found.at].key[1], FixtureKey[1])
        /\ SubstringRelated(rc_out.odds_lookup[rc_out.found.at].key[2], FixtureKey[2])

\* C8 witness: the scan passed over an entry related on the home side only and
\* accepted the next one, which is not the exact key.
C8_Witness ==
    /\ rc_out.stage = "done"
    /\ rc_out.found.via = "fuzzy"
    /\ rc_out.found.at = 2
    /\ rc_out.odds_lookup[2].key # FixtureKey
    /\ SubstringRelated(rc_out.odds_lookup[1].key[1], FixtureKey[1])
    /\ ~SubstringRelated(rc_out.odds_lookup[1].key[2], FixtureKey[2])

\* C9 as amended (SpecMatch): a fixture whose home name is "Paris SG" or "PSG"
\* is never matched with an entry whose home key is "paris saint germain", and
\* has no odds when the index holds such entries only.
C9_NoSubstringNoMatch ==
    (rc_out.stage = "done" /\ rc_in.fixture.home_team_name \in {ParisSG, PSG}) =>
        /\ rc_out.found.via # "none" =>
              rc_out.odds_lookup[rc_out.found.at].key[1] # Lower(ParisSaintGermain)
        /\ (\A i \in DOMAIN rc_out.odds_lookup :
               rc_out.odds_lookup[i].key[1] = Lower(ParisSaintGermain)) =>
              (rc_out.found.via = "none" /\ rc_out.found.odds = <<>>)

\* C9 witness: "Paris SG" against the one entry "paris saint germain", quoted,
\* with the away sides equal: no odds.
C9_Witness ==
    /\ rc_out.stage = "done"
    /\ rc_in.fixture.home_team_name = ParisSG
    /\ Len(rc_out.odds_lookup) = 1
    /\ rc_out.odds_lookup[1].key = <<Lower(ParisSaintGermain), FixtureKey[2]>>
    /\ rc_out.odds_lookup[1].odds # <<>>
    /\ rc_out.found.via = "none"

\* C9 as stated (SpecMatch): "Paris SG" matches an entry "paris saint germain"
\* whose away side matches, and "PSG" matches none.
C9_ParisSGMatches ==
    (/\ rc_out.stage = "done"
     /\ Len(rc_out.odds_lookup) = 1
     /\ rc_out.odds_lookup[1].key = <<Lower(ParisSaintGermain), FixtureKey[2]>>
     /\ rc_out.odds_lookup[1].odds # <<>>) =>
        /\ rc_in.fixture.home_team_name = ParisSG => rc_out.found.via = "fuzzy"
        /\ rc_in.fixture.home_team_name = PSG => rc_out.found.via = "none"

\* C10 as amended (Spec): refresh_team_stats stamps last_refresh once, as its
\* last step, whether or not a league failed; no step for a league writes it.
C10_StampAtTheEnd ==
    [][\A t \in Threads :
         /\ (pc[t] \in {"r_league", "r_save"} /\ local'[t] # local[t])
              => worker_state'.last_refresh = worker_state.last_refresh
         /\ (pc[t] = "r_finish" /\ pc'[t] = "done")
              => /\ worker_state'.last_refresh = now
                 /\ worker_state'.last_refresh # worker_state.last_refresh]_vars

\* C10 witness: a refresh with a failed league is over, and last_refresh is the
\* time of its end.
C10_Witness ==
    \E t \in Threads :
        /\ local[t].fn = "refresh"
        /\ pc[t] = "done"
        /\ \E i \in DOMAIN local[t].results : ~local[t].results[i].ok
        /\ worker_state.last_refresh = now - 1

\* C10 as stated (Spec): a refresh in which a league failed leaves last_refresh
\* as it was.
C10_FailedRefreshNotStamped ==
    [][\A t \in Threads :
         (/\ pc[t] = "r_finish" /\ pc'[t] = "done"
          /\ \E i \in DOMAIN local[t].results : ~local[t].results[i].ok)
            => worker_state'.last_refresh = worker_state.last_refresh]_vars

\* C11 (Spec): last_run and bets_today change only in the step that ends a
\* run, taken after the last league; every other step of every thread, and a
\* run that is left by an exception, leaves both as they are.
C11_StampsOnlyAtRunEnd ==
    [][(\/ worker_state'.last_run # worker_state.last_run
        \/ worker_state'.bets_today # worker_state.bets_today)
         => \E t \in Threads :
               /\ pc[t] = "finish" /\ pc'[t] = "summary"
               /\ local[t].li = Len(LEAGUES) + 1]_vars

\* C11 witness: a run is over and has stamped last_run and a positive
\* bets_today.
C11_Witness ==
    \E t \in Threads :
        /\ local[t].fn = "run" /\ pc[t] = "done"
        /\ worker_state.last_run = now - 1
        /\ worker_state.bets_today > 0

\* The calls of the log of thread t that are of call c for league l.
CallsOf(t, c, l) ==
    {i \in DOMAIN local[t].log : local[t].log[i].call = c /\ local[t].log[i].league = l}

\* The position that follows the current bet, fixture or league of L.
PositionAfterBet(L) ==
    IF L.bi < Len(L.value_bets) THEN "save"
    ELSE IF L.fi < Len(L.fixtures) THEN "fixture"
    ELSE IF L.li < Len(LEAGUES) THEN "fixtures" ELSE "finish"

PositionAfterFixture(L) ==
    IF L.fi < Len(L.fixtures) THEN "fixture"
    ELSE IF L.li < Len(LEAGUES) THEN "fixtures" ELSE "finish"

\* The step in which save_bet raises: the bet stays out of the batch and of the
\* database, and the run goes on with the next bet, fixture or league.
C12_FailedSaveStep ==
    \A t \in Threads :
        LET L == local[t]
        IN  (/\ pc[t] = "save"
             /\ local'[t].log = Append(L.log, Call("save_bet", LEAGUES[L.li], "raise")))
            => /\ local'[t].all_value_bets = L.all_value_bets
               /\ local'[t].errors = L.errors
               /\ db_bets' = db_bets
               /\ pc'[t] = PositionAfterBet(L)
               /\ pc'[t] = "save" => local'[t].bi = L.bi + 1
               /\ pc'[t] = "fixture" => local'[t].fi = L.fi + 1
               /\ pc'[t] \in {"fixtures", "finish"} => local'[t].li = L.li + 1

\* A run in which nothing but save_bet raised is not left by an exception, and
\* its batch holds the bets whose save returned, no other.
C12_FailedSaveRun ==
    \A t \in Threads :
        (/\ local[t].fn = "run"
         /\ \A i \in DOMAIN local[t].log :
               local[t].log[i].outcome = "raise" => local[t].log[i].call = "save_bet")
        => /\ pc[t] # "raised"
           /\ Len(local[t].all_value_bets) =
                 Cardinality({i \in DOMAIN local[t].log :
                                 /\ local[t].log[i].call = "save_bet"
                                 /\ local[t].log[i].outcome = "ok"})
           /\ pc[t] = "done" =>
                 \A l \in Range(LEAGUES) : CallsOf(t, "get_fixtures", l) # {}

\* C12 (Spec): when save_bet raises for a bet, the bet is left out of the
\* batch, the remaining bets, fixtures and leagues are processed, and the run
\* is not ended by it.
C12_FailedSaveIsSkipped == []C12_FailedSaveRun /\ [][C12_FailedSaveStep]_vars

\* C12 witness: a run is over in which a save raised and a later save of the
\* same run returned.
C12_Witness ==
    \E t \in Threads :
        /\ local[t].fn = "run" /\ pc[t] = "done"
        /\ \E i, j \in DOMAIN local[t].log :
              /\ i < j
              /\ local[t].log[i] = Call("save_bet", LEAGUES[1], "raise")
              /\ local[t].log[j].call = "save_bet" /\ local[t].log[j].outcome = "ok"
        /\ Len(local[t].all_value_bets) = 1

\* C13 (Spec): when get_odds raised for a league, the run's errors hold a line
\* for that league, the league goes on with an empty odds index, none of its
\* fixtures has a bet saved, and the leagues after it are processed.
C13_OddsFailureTolerated ==
    \A t \in Threads :
        local[t].fn = "run" =>
            \A i \in DOMAIN local[t].log :
                LET c == local[t].log[i]
                IN  (c.call = "get_odds" /\ c.outcome = "raise") =>
                      /\ \E k \in DOMAIN local[t].errors :
                            local[t].errors[k] = [stage |-> "Cotes",
                                                  league |-> LEAGUE_NAMES(c.league)]
                      /\ CallsOf(t, "save_bet", c.league) = {}
                      /\ (pc[t] \in {"fixture", "save"} /\ LEAGUES[local[t].li] = c.league)
                            => (local[t].odds_lookup = <<>> /\ pc[t] = "fixture")
                      /\ pc[t] \in {"finish", "summary", "digest", "done", "raised"} =>
                            \A l \in LeaguesAfter(c.league) :
                                CallsOf(t, "get_fixtures", l) # {}

\* C13 witness: a run is over in which get_odds raised for the first league,
\* whose fixtures had stored stats, and the second league was fetched.
C13_Witness ==
    \E t \in Threads :
        /\ local[t].fn = "run" /\ pc[t] = "done"
        /\ CallsOf(t, "get_odds", LEAGUES[1]) # {}
        /\ \A i \in CallsOf(t, "get_odds", LEAGUES[1]) : local[t].log[i].outcome = "raise"
        /\ CallsOf(t, "get_team_standings", LEAGUES[1]) = {}
        /\ CallsOf(t, "get_odds", LEAGUES[2]) # {}

\* No entry of the index is related to the fixture on both sides.
NoOddsEntryMatches(index, fix) ==
    \A i \in DOMAIN index :
        ~(/\ SubstringRelated(index[i].key[1], Lower(fix.home_team_name))
          /\ SubstringRelated(index[i].key[2], Lower(fix.away_team_name)))

\* C14 (Spec): a league without fixtures, a fixture with a team that has no
\* strengths, and a fixture no odds entry matches are passed over: nothing
\* joins the errors, no bet is saved, and the run goes on with what follows.
C14_AbsenceIsNoError ==
    [][\A t \in Threads :
         LET L == local[t]
         IN  /\ (/\ pc[t] = "fixtures"
                 /\ local'[t].log = Append(L.log, Call("get_fixtures", LEAGUES[L.li], "ok"))
                 /\ local'[t].fixtures = <<>>)
                => /\ local'[t].errors = L.errors
                   /\ db_bets' = db_bets
                   /\ local'[t].li = L.li + 1
                   /\ pc'[t] = IF L.li < Len(LEAGUES) THEN "fixtures" ELSE "finish"
             /\ (/\ pc[t] = "fixture"
                 /\ local'[t] # L
                 /\ LET fix == L.fixtures[L.fi]
                    IN  \/ fix.home_team_id \notin L.team_stats
                        \/ fix.away_team_id \notin L.team_stats
                        \/ NoOddsEntryMatches(L.odds_lookup, fix))
                => /\ local'[t].errors = L.errors
                   /\ local'[t].all_value_bets = L.all_value_bets
                   /\ local'[t].log = L.log
                   /\ db_bets' = db_bets
                   /\ pc'[t] = PositionAfterFixture(L)]_vars

\* C14 witness: a run is over with no error and no bet, in which the first
\* league had fixtures that were all passed over and the second had none.
C14_Witness ==
    \E t \in Threads :
        /\ local[t].fn = "run" /\ pc[t] = "done"
        /\ local[t].errors = <<>>
        /\ db_bets = 0
        /\ \E i \in CallsOf(t, "get_odds", LEAGUES[1]) : local[t].log[i].outcome = "ok"
        /\ CallsOf(t, "get_fixtures", LEAGUES[2]) # {}
        /\ CallsOf(t, "get_team_stats", LEAGUES[2]) = {}

\* C15 (Spec): a run that passed the guard calls send_daily_summary once, and
\* sends the error digest exactly when it recorded an error.
C15_OneBatchAtRunEnd ==
    \A t \in Threads :
        (local[t].fn = "run" /\ pc[t] \in {"done", "raised"}) =>
            /\ Cardinality(CallsOf(t, "send_daily_summary", 0)) = 1
            /\ (\E i \in CallsOf(t, "send_message", 0) : local[t].log[i].outcome = "errors")
                  <=> local[t].errors # <<>>

\* C16 (Spec): within a run, get_fixtures, get_odds and get_team_standings are
\* each called at most once for a league.
C16_NoRetryWithinARun ==
    \A t \in Threads :
        local[t].fn = "run" =>
            \A l \in Range(LEAGUES) :
                \A c \in {"get_fixtures", "get_odds", "get_team_standings"} :
                    Cardinality(CallsOf(t, c, l)) <= 1

\* C16 witness: a run is over in which the standings fetch of the first league
\* and the odds fetch of the second raised, each called once.
C16_Witness ==
    \E t \in Threads :
        /\ local[t].fn = "run" /\ pc[t] = "done"
        /\ \E i \in CallsOf(t, "get_team_standings", LEAGUES[1]) :
              local[t].log[i].outcome = "raise"
        /\ \E i \in CallsOf(t, "get_odds", LEAGUES[2]) :
              local[t].log[i].outcome = "raise"
        /\ Cardinality(CallsOf(t, "get_team_standings", LEAGUES[1])) = 1
        /\ Cardinality(CallsOf(t, "get_odds", LEAGUES[2])) = 1


\* C17 (SpecCommands): the polling loop does not wait for a pipeline.  A
\* worker thread starts only in the step that ends the handler of run or
\* refresh, at the first line of its function, and that step puts the loop
\* back on its batch or on getUpdates; and an update that the loop has taken
\* up leads to the next getUpdates even when no worker ever takes a step.
C17_PollingNeverBlocks ==
    /\ [][\A t \in Threads :
            (pc[t] \in Quiescent /\ pc'[t] \notin Quiescent) =>
                /\ poll.stage = "reply" /\ poll.handler \in {"run", "refresh"}
                /\ pc'[t] = (IF poll.handler = "run" THEN "guard" ELSE "r_league")
                /\ poll'.stage \in {"get", "handle"}
                /\ poll'.updates = poll.updates]_vars
    /\ (poll.stage \in {"handle", "reply"}) ~> (poll.stage = "get")

\* C17 witness: a status command was handled after a run command, and answered
\* that a run is in progress, while the thread started for the run is inside
\* the pipeline.
C17_Witness ==
    /\ poll.spawned # "none"
    /\ pc[poll.spawned] \in PipelineBody
    /\ \E i, j \in DOMAIN poll.handled :
          /\ i < j
          /\ poll.handled[i].handler = "run"
          /\ poll.handled[j].handler = "status"
          /\ poll.handled[j].outcome = "running"

\* C18 (SpecPoll): no handler is run for an update whose chat id is not the
\* configured TELEGRAM_CHAT, set or unset.
C18_OnlyAuthorizedSender ==
    \A i \in DOMAIN poll.handled :
        poll.handled[i].from # TELEGRAM_CHAT => poll.handled[i].handler = "none"

\* C19 as amended (SpecPoll): a word that passed the gate and is no command
\* runs the help handler when it starts with a slash and no handler when it
\* does not; a text without a word runs none.
C19_SlashWordsFallBackToHelp ==
    \A i \in DOMAIN poll.handled :
        LET h == poll.handled[i]
        IN  /\ (TELEGRAM_CHAT # "" /\ h.from = TELEGRAM_CHAT) => h.outcome # "unauthorized"
            /\ h.outcome = "parse_error" => (h.word = <<>> /\ h.handler = "none")
            /\ (h.outcome \notin {"unauthorized", "parse_error"} /\ ~InCommands(h.word)) =>
                  IF Head(h.word) = "/"
                  THEN h.handler = "help" /\ h.outcome = "ok"
                  ELSE h.handler = "none" /\ h.outcome = "ignored"

\* C19 witness: the authorized sender's "/foo" ran help and its "hello" ran
\* nothing.
C19_Witness ==
    /\ TELEGRAM_CHAT = "42"
    /\ \E i, j \in DOMAIN poll.handled :
          /\ poll.handled[i] = [update_id |-> i, from |-> "42", word |-> MsgFoo,
                                handler |-> "help", outcome |-> "ok"]
          /\ poll.handled[j] = [update_id |-> j, from |-> "42", word |-> MsgHello,
                                handler |-> "none", outcome |-> "ignored"]

\* C19 as stated (SpecPoll): every message of the authorized sender whose
\* first word is none of the six commands runs the help handler.
C19_UnknownFallsBackToHelp ==
    \A i \in DOMAIN poll.handled :
        LET h == poll.handled[i]
        IN  (/\ TELEGRAM_CHAT # "" /\ h.from = TELEGRAM_CHAT
             /\ h.word # <<>> /\ ~InCommands(h.word))
            => h.handler = "help"

\* C20 (SpecPredict): for every pair of teams with strengths, the lambdas of
\* the prediction lie in [0.3, 6.0].
C20_LambdasClamped ==
    (pr_out.done /\ ~pr_out.prediction.none) =>
        /\ 300 <= pr_out.prediction.lambda_home /\ pr_out.prediction.lambda_home <= 6000
        /\ 300 <= pr_out.prediction.lambda_away /\ pr_out.prediction.lambda_away <= 6000

\* C20 witness: att_home = 100 for the home team, in a league whose away
\* average is 0: both limits of the clamp are met.
C20_Witness ==
    /\ pr_out.done /\ ~pr_out.prediction.none
    /\ pr_in.strengths[pr_in.home_team_id].att_home = FloatOf(100, 0)
    /\ pr_in.home_team_id # pr_in.away_team_id
    /\ FloatGt(LambdaHome(pr_in.strengths[pr_in.home_team_id],
                          pr_in.strengths[pr_in.away_team_id], pr_in.league_avg_home),
               LambdaMax)
    /\ pr_out.prediction.lambda_home = 6000
    /\ pr_out.prediction.lambda_away = 300


\* The number of calls of save_bet that returned, in the run of thread t.
SavedIn(t) ==
    Cardinality({i \in DOMAIN local[t].log :
                    /\ local[t].log[i].call = "save_bet"
                    /\ local[t].log[i].outcome = "ok"})

\* C27 (Spec): when a run has passed its end, worker_state.bets_today is the
\* number of bets save_bet persisted in that run: neither the bets whose save
\* raised nor the bets of earlier runs are counted.
C27_BetsTodayCountsThisRun ==
    \A t \in Threads :
        (local[t].fn = "run" /\ pc[t] \in {"summary", "digest", "done"}) =>
            worker_state.bets_today = SavedIn(t)

\* C27 witness: a run has ended in which one save raised and another
\* returned, after an earlier run had already persisted bets.
C27_Witness ==
    \E t \in Threads :
        /\ local[t].fn = "run" /\ pc[t] = "done"
        /\ SavedIn(t) > 0
        /\ \E i \in DOMAIN local[t].log :
              local[t].log[i].call = "save_bet" /\ local[t].log[i].outcome = "raise"
        /\ db_bets > SavedIn(t)
        /\ worker_state.bets_today = SavedIn(t)


\* The entry at place i of the index is substring-related to the fixture on
\* both sides.
RelatedAt(i) ==
    /\ SubstringRelated(rc_out.odds_lookup[i].key[1], FixtureKey[1])
    /\ SubstringRelated(rc_out.odds_lookup[i].key[2], FixtureKey[2])

\* The keys of the feed's events in the order of their first occurrence.
RECURSIVE FirstInsertions(_)
FirstInsertions(odds_events) ==
    IF odds_events = <<>> THEN <<>>
    ELSE LET before == FirstInsertions(SubSeq(odds_events, 1, Len(odds_events) - 1))
             ev     == odds_events[Len(odds_events)]
             key    == <<Lower(ev.home_team), Lower(ev.away_team)>>
         IN  IF key \in Range(before) THEN before ELSE Append(before, key)

\* C29 (SpecMatch): the index lists the distinct keys in the order of their
\* first insertion; when the exact key is not in the index and an entry
\* qualifies, the entry accepted is the first qualifying one in that order,
\* its odds are the odds used, and no later entry is accepted in its place.
C29_FirstQualifyingEntryWins ==
    rc_out.stage = "done" =>
        /\ [i \in DOMAIN rc_out.odds_lookup |-> rc_out.odds_lookup[i].key]
              = FirstInsertions(rc_in.odds_events)
        /\ (\A i \in DOMAIN rc_out.odds_lookup : rc_out.odds_lookup[i].key # FixtureKey) =>
              IF \E i \in DOMAIN rc_out.odds_lookup : RelatedAt(i)
              THEN /\ rc_out.found.via = "fuzzy"
                   /\ RelatedAt(rc_out.found.at)
                   /\ \A j \in 1..(rc_out.found.at - 1) : ~RelatedAt(j)
                   /\ rc_out.found.odds = rc_out.odds_lookup[rc_out.found.at].odds
              ELSE rc_out.found.via = "none" /\ rc_out.found.odds = <<>>

\* C29 witness: the exact key is absent, two entries qualify and quote
\* different odds; the first was accepted.
C29_Witness ==
    /\ rc_out.stage = "done"
    /\ Len(rc_out.odds_lookup) = 2
    /\ \A i \in 1..2 : rc_out.odds_lookup[i].key # FixtureKey /\ RelatedAt(i)
    /\ rc_out.odds_lookup[1].odds # <<>>
    /\ rc_out.odds_lookup[2].odds # <<>>
    /\ rc_out.odds_lookup[1].odds # rc_out.odds_lookup[2].odds
    /\ rc_out.found.via = "fuzzy" /\ rc_out.found.at = 1
    /\ rc_out.found.odds = rc_out.odds_lookup[1].odds


\* The place of a bet in the order of discovery: bookmakers in the order of
\* the odds mapping, then markets in the order of market_map.
DiscoveryRank(bet) ==
    LET b == CHOOSE i \in DOMAIN fv_in.odds : fv_in.odds[i].bk = bet.bookmaker
        m == CHOOSE k \in DOMAIN MarketKeys : MarketLabel(MarketKeys[k]) = bet.market
    IN  (b - 1) * Len(MarketKeys) + m

\* C24 (SpecScore): the list find_value_bets returns is in descending order of
\* value, and bets of equal value are in the order of their discovery.
C24_SortedStableByValue ==
    fv_out.done =>
        \A i, j \in DOMAIN fv_out.bets :
            i < j =>
                \/ fv_out.bets[i].value > fv_out.bets[j].value
                \/ /\ fv_out.bets[i].value = fv_out.bets[j].value
                   /\ DiscoveryRank(fv_out.bets[i]) < DiscoveryRank(fv_out.bets[j])

\* C24 witness: two bets of equal value from two bookmakers are returned in
\* the order of their discovery, and a bet discovered between them, of lower
\* value, comes after both.
C24_Witness ==
    /\ fv_out.done
    /\ \E i, j, k \in DOMAIN fv_out.bets :
          /\ i < j /\ j < k
          /\ fv_out.bets[i].value = fv_out.bets[j].value
          /\ fv_out.bets[i].bookmaker # fv_out.bets[j].bookmaker
          /\ fv_out.bets[k].value < fv_out.bets[j].value
          /\ DiscoveryRank(fv_out.bets[i]) < DiscoveryRank(fv_out.bets[k])
          /\ DiscoveryRank(fv_out.bets[k]) < DiscoveryRank(fv_out.bets[j])


\* C28, the states: the updates the loop went through have increasing ids, so
\* none was gone through twice; the offset is past the last of them; and the
\* updates of the batch in hand are all after them.
C28_EachUpdateOnce ==
    /\ \A i, j \in DOMAIN poll.handled :
          i < j => poll.handled[i].update_id < poll.handled[j].update_id
    /\ poll.handled # <<>> =>
          poll.offset = poll.handled[Len(poll.handled)].update_id + 1
    /\ \A i \in DOMAIN poll.handled : \A k \in DOMAIN poll.updates :
          poll.handled[i].update_id < poll.updates[k].update_id

\* C28, the steps: the offset never decreases, and a poll brings only updates
\* from the offset on.
C28_OffsetStep ==
    /\ poll'.offset >= poll.offset
    /\ (poll.stage = "get" /\ poll.offset # None) =>
          \A k \in DOMAIN poll'.updates : poll'.updates[k].update_id >= poll.offset

\* C28 (SpecPoll): every update is gone through at most once, whether it was
\* handled, rejected or failed, and the polls ask for later updates only.
C28_NoReplay == []C28_EachUpdateOnce /\ [][C28_OffsetStep]_vars

\* C28 witness: an update without text failed, and the update after it was
\* then handled by its command.
C28_Witness ==
    /\ Len(poll.handled) = 2
    /\ poll.handled[1].outcome = "parse_error"
    /\ poll.handled[2].update_id = poll.handled[1].update_id + 1
    /\ poll.handled[2].handler = "status"
    /\ poll.offset = poll.handled[2].update_id + 1
    /\ poll.stage = "get"


\* The entries of the batch that got a message of their own.
Notified ==
    {<<ds_out.messages[i].bet, ds_out.messages[i].match_info>> :
        i \in {k \in DOMAIN ds_out.messages : ds_out.messages[k].kind = "bet"}}

\* C26 (SpecSummary): for a top_count that is not negative, the bets with a
\* message of their own are top_count bets of the highest value among the bets
\* of the run: there are top_count of them (all of them when the run has
\* fewer), and none has a lower value than a bet of the run left without a
\* message.
C26_TopNByValue ==
    (ds_out.stage = "sent" /\ ds_out.value_bets # <<>> /\ ds_in.top_count >= 0) =>
        /\ Cardinality(Notified) = Min2(ds_in.top_count, Len(ds_out.value_bets))
        /\ \A e \in Range(ds_out.value_bets) : \A m \in Notified :
              e \notin Notified => m[1].value >= e[1].value


\* The strengths of the two teams of the call.
HomeRow == pr_in.strengths[pr_in.home_team_id]
AwayRow == pr_in.strengths[pr_in.away_team_id]

\* The sum of the cells of the grid of the call.
GridSum ==
    SumCells(ScoreMatrixOf(pr_in.home_team_id, pr_in.away_team_id, pr_in.strengths,
                           pr_in.league_avg_home, pr_in.league_avg_away),
             (0..MAX_GOALS) \X (0..MAX_GOALS))

\* home_win + draw + away_win of the prediction, in units of 10^-4.
ThreeOutcomes ==
    pr_out.prediction.home_win + pr_out.prediction.draw + pr_out.prediction.away_win

\* C21 (SpecPredict): for every prediction, the cells of the 9 x 9 grid sum
\* to 1 within 10^-3, and so do home_win, draw and away_win.
C21_ProbabilitiesSumToOne ==
    (pr_out.done /\ ~pr_out.prediction.none) =>
        /\ ~FloatGt(FloatOf(999, 3), GridSum) /\ ~FloatGt(GridSum, FloatOf(1001, 3))
        /\ 10000 - ThreeOutcomes <= 10 /\ ThreeOutcomes - 10000 <= 10

\* C23 (SpecPredict): predict_match gives no prediction exactly when the home
\* team or the away team has no entry in the strength mapping.
C23_NoneIffAbsent ==
    pr_out.done =>
        (pr_out.prediction.none <=>
            (\/ pr_in.home_team_id \notin DOMAIN pr_in.strengths
             \/ pr_in.away_team_id \notin DOMAIN pr_in.strengths))

\* C23 witness: the home team has strengths, all of them 0, the away team has
\* no entry: no prediction.
C23_Witness ==
    /\ pr_out.done
    /\ pr_in.home_team_id \in DOMAIN pr_in.strengths
    /\ HomeRow.att_home = Float0 /\ HomeRow.def_home = Float0
    /\ pr_in.away_team_id \notin DOMAIN pr_in.strengths
    /\ pr_out.prediction.none

\* The two products of three factors, for a call with both teams present.
ProductHome == FloatMul(FloatMul(HomeRow.att_home, AwayRow.def_away), pr_in.league_avg_home)
ProductAway == FloatMul(FloatMul(AwayRow.att_away, HomeRow.def_home), pr_in.league_avg_away)

\* x lies in [0.3, 6.0].
Unclamped(x) == ~FloatGt(FloatOf(3, 1), x) /\ ~FloatGt(x, FloatOf(6, 0))

\* C25 (SpecPredict): a lambda the clamp leaves alone is att_home of the home
\* team times def_away of the away team times the league's home average, and
\* att_away of the away team times def_home of the home team times the
\* league's away average; lambdas of 1.512 and 1.21 give a home win a higher
\* probability than an away win.
C25_LambdasFromStrengths ==
    (pr_out.done /\ ~pr_out.prediction.none) =>
        /\ Unclamped(ProductHome) =>
              pr_out.prediction.lambda_home = FloatRoundTo(ProductHome, 3)
        /\ Unclamped(ProductAway) =>
              pr_out.prediction.lambda_away = FloatRoundTo(ProductAway, 3)
        /\ (pr_out.prediction.lambda_home = 1512 /\ pr_out.prediction.lambda_away = 1210) =>
              pr_out.prediction.home_win > pr_out.prediction.away_win

\* C25 witness: TeamA at home to TeamB in a league of averages 1.4 and 1.1:
\* the lambdas are 1.512 and 1.21, and the home win is the likelier.
C25_Witness ==
    /\ pr_out.done /\ ~pr_out.prediction.none
    /\ HomeRow = TeamA /\ AwayRow = TeamB
    /\ pr_in.league_avg_home = FloatOf(140, 2) /\ pr_in.league_avg_away = FloatOf(110, 2)
    /\ pr_out.prediction.lambda_home = 1512
    /\ pr_out.prediction.lambda_away = 1210
    /\ pr_out.prediction.home_win > pr_out.prediction.away_win


\* The four strengths of a team.
StrengthKeys == {"att_home", "def_home", "att_away", "def_away"}

\* No division of calc_league_averages or of calc_attack_defense_strength is
\* a division by zero: both averages and all strengths are numbers.
NoDivisionRaises ==
    /\ cs_out.stage \in {"averaged", "done"} =>
          /\ cs_out.averages.avg_home # ZeroDivision
          /\ cs_out.averages.avg_away # ZeroDivision
    /\ cs_out.stage = "done" =>
          \A tid \in DOMAIN cs_in :
              \A key \in StrengthKeys : cs_out.strengths[tid][key] # ZeroDivision

\* The goals of a row that a strength is made of, and the games of its side.
GoalsOf(s, key) ==
    CASE key = "att_home" -> s.home_goals_scored
      [] key = "def_home" -> s.home_goals_conceded
      [] key = "att_away" -> s.away_goals_scored
      [] key = "def_away" -> s.away_goals_conceded

GamesOf(s, key) ==
    IF key \in {"att_home", "def_home"} THEN s.home_games ELSE s.away_games

\* C22 as stated (SpecStrength): no division is a division by zero, for teams
\* without home games or without away games and for a league without games
\* or goals, and the strengths of a team on a side where it has no games are
\* 0.
C22_ZeroGamesZeroStrengths ==
    /\ NoDivisionRaises
    /\ cs_out.stage = "done" =>
          \A tid \in DOMAIN cs_in : \A key \in StrengthKeys :
              GamesOf(cs_in[tid], key) = 0 => cs_out.strengths[tid][key] = Float0

\* C22 as amended (SpecStrength): no division is a division by zero, for
\* teams without home games or without away games and for a league without
\* games or goals; on a side where a team has no games the count is taken
\* for 1, so that a strength is 0 when the row has no goals for it and more
\* than 0 when it has.
C22_NoDivisionByZero ==
    /\ NoDivisionRaises
    /\ cs_out.stage = "done" =>
          \A tid \in DOMAIN cs_in : \A key \in StrengthKeys :
              GamesOf(cs_in[tid], key) = 0 =>
                  IF GoalsOf(cs_in[tid], key) = 0
                  THEN cs_out.strengths[tid][key] = Float0
                  ELSE FloatGt(cs_out.strengths[tid][key], Float0)

\* C22 witness: a league of two teams, one without any game or goal and one
\* whose row has 3 home goals scored and no home game: the first has four
\* strengths of 0, the attack at home of the second is 3 / 1 over the home
\* average 3 / 1, which is 1.
C22_Witness ==
    /\ cs_out.stage = "done"
    /\ Cardinality(DOMAIN cs_in) = 2
    /\ \E t, u \in DOMAIN cs_in :
          /\ cs_in[t] = StatRow(0, 0, 0, 0, 0, 0)
          /\ cs_in[u] = StatRow(0, 4, 3, 1, 5, 6)
          /\ \A key \in StrengthKeys : cs_out.strengths[t][key] = Float0
          /\ cs_out.strengths[u].att_home = One
    /\ cs_out.averages.avg_home = FloatOf(3, 0)


====
